---- MODULE Spec2Model ----
(***************************************************************************)
(* Model of the logo crawler (github.com/Tanmay-Thanvi/logo-crawler).      *)
(*                                                                         *)
(*   Spec     FetchPublishersConcurrently: the publisher worker pool       *)
(*   SpecV    LogoCrawler.FetchPublisherLogos for one organization:        *)
(*            ValidateConcurrently, then SelectBest and the final sort     *)
(*   SpecVBig ValidateConcurrently with more candidates than permits       *)
(*   SpecSel  BestLogoSelector.SelectBest as a pure function               *)
(*   SpecE    FetchPublisherLogos for a site that serves a 150x150 and a   *)
(*            20x20 image                                                  *)
(*   SpecX    DetectDomain, then LogoExtractor.ExtractCandidates           *)
(*   SpecMW   LogoCrawlerApp.getMaxWorkers                                 *)
(*   SpecScore BestLogoSelector.calculateLogoScore for one logo            *)
(*   SpecPar  two FetchPublisherLogos calls validating at the same time    *)
(*   SpecFair Spec with the fairness of the Go scheduler                   *)
(*   SpecVFair SpecV with the fairness of the Go scheduler                 *)
(*   SpecTwin FetchPublisherLogos for a site that serves its 150x150 image *)
(*            at two paths                                                 *)
(*   SpecEither Spec or SpecV                                              *)
(*   SpecImg  LogoExtractor.extractImgTags over the img tags of a page     *)
(***************************************************************************)
EXTENDS Integers, Sequences, FiniteSets, Bags, TLC

VARIABLES
    \* ---- FetchPublishersConcurrently (crawler.go) ----
    publishers,     \* the input slice
    maxWorkers,     \* the maxWorkers argument
    started,        \* TRUE once the goroutines have been launched
    sendIdx,        \* sender goroutine: number of tasks sent so far
    publisherChan,  \* buffered channel of tasks
    pubClosed,      \* publisherChan closed
    resultChan,     \* buffered channel of results
    resClosed,      \* resultChan closed
    wpc,            \* worker -> position in the goroutine
    wtask,          \* worker -> task being processed
    wresult,        \* worker -> the result variable of the current iteration
    wdefers,        \* worker -> results captured by the deferred recover closures
    wg,             \* sync.WaitGroup counter
    results,        \* the collector's slice
    mainpc,         \* main goroutine: "start", "collect", "done", "crashed"
    faulted,        \* history: indexes whose FetchPublisherLogos panicked
    taken,          \* history: indexes in the order the workers received them
    computed,       \* history: index -> what FetchPublisherLogos returned for it
    \* ---- LogoValidator.ValidateConcurrently (logo_validator.go) ----
    candidates,     \* the candidate URLs
    cpc,            \* candidate goroutine -> "wait", "fetch", "done"
    semaphore,      \* permits held (length of the semaphore channel)
    vresults,       \* the results channel
    vwg,            \* the call's WaitGroup counter
    vclosed,        \* results channel closed
    valid,          \* the collector's slice
    ctxDone,        \* the 30 s deadline has fired
    vpc,            \* caller: "start", "collect", "select", "done"
    fpLogos,        \* FetchPublisherLogos: returned logo list
    fpBest,         \* FetchPublisherLogos: returned best
    sent,           \* history: candidate -> the LogoInfo it sent (NoLogo: none)
    \* ---- SelectBest as a function ----
    selLogos,       \* the logos argument
    selPrefs,       \* the prefs argument
    selBest,        \* what the first call returned
    selBest2,       \* what a second call with the same arguments returned
    selSorted,      \* what sortLogosWithBestFirst(logos, best) returned
    selPc,          \* "call", "done", "twice"
    \* ---- DetectDomain and ExtractCandidates (logo_extractor.go) ----
    exInput,        \* the input line (name or URL)
    exDomain,       \* DetectDomain(input)
    exUrls,         \* extractFromHTML: base URLs still to probe
    exAll,          \* extractFromHTML: allCandidates
    exProbed,       \* history: number of base URLs probed
    exFailed,       \* history: number of base URLs whose GET or parse failed
    exOut,          \* what ExtractCandidates returned
    exPc,           \* "detect", "extract", "pages", "done"
    \* ---- LogoCrawlerApp.getMaxWorkers (app.go) ----
    mwEnv,          \* the value of the environment variable MAX_WORKERS
    mwCpus,         \* runtime.NumCPU()
    mwOut,          \* what getMaxWorkers returned
    mwPc,           \* "call", "done"
    \* ---- calculateLogoScore as a function ----
    scLogo,         \* the logo argument
    scPrefs,        \* the prefs argument
    scScore,        \* the returned score
    scPc,           \* "call", "done"
    \* ---- two FetchPublisherLogos calls running in two workers ----
    pcands,         \* call -> its candidate URLs
    pcpc,           \* call -> position ("wait", "fetch") -> bag of goroutines
    psem,           \* validator -> permits held in its semaphore channel
    pctx,           \* call -> the deadline of its context has fired
    pres,           \* call -> its results channel
    pwg,            \* call -> its WaitGroup counter
    pclosed,        \* call -> its results channel is closed
    pvalid,         \* call -> the collector's slice
    ppc,            \* call -> "start", "collect", "done"
    \* ---- LogoExtractor.extractImgTags (logo_extractor.go) ----
    imDomain,       \* base.Hostname()
    imPage,         \* the img elements of the document, in document order
    imOut,          \* the returned candidates
    imPc            \* "call", "done"

ovars == <<publishers, maxWorkers, started, sendIdx, publisherChan, pubClosed,
           resultChan, resClosed, wpc, wtask, wresult, wdefers, wg, results,
           mainpc, faulted, taken, computed>>
vvars == <<candidates, cpc, semaphore, vresults, vwg, vclosed, valid, ctxDone,
           vpc, fpLogos, fpBest, sent>>
svars == <<selLogos, selPrefs, selBest, selBest2, selSorted, selPc>>
evars == <<exInput, exDomain, exUrls, exAll, exProbed, exFailed, exOut, exPc>>
avars == <<mwEnv, mwCpus, mwOut, mwPc>>
cvars == <<scLogo, scPrefs, scScore, scPc>>
pvars == <<pcands, pcpc, psem, pctx, pres, pwg, pclosed, pvalid, ppc>>
ivars == <<imDomain, imPage, imOut, imPc>>
xvars == <<evars, avars, cvars, pvars, ivars>>
vars == <<ovars, vvars, svars, xvars>>

(***************************************************************************)
(* Bounds of the model.                                                    *)
(***************************************************************************)
MaxPublishers == 3
MaxWorkersBound == 2
MaxCandidates == 3
BigCandidates == 11
MaxLogos == 3

(***************************************************************************)
(* Strings: strings.Contains and strings.ToLower.                          *)
(***************************************************************************)
Contains(s, k) ==
    \E i \in 1..(Len(s) - Len(k) + 1) : SubSeq(s, i, i + Len(k) - 1) = k

LowerOf(c) ==
    CASE c = "A" -> "a" [] c = "B" -> "b" [] c = "C" -> "c" [] c = "D" -> "d"
      [] c = "E" -> "e" [] c = "F" -> "f" [] c = "G" -> "g" [] c = "H" -> "h"
      [] c = "I" -> "i" [] c = "J" -> "j" [] c = "K" -> "k" [] c = "L" -> "l"
      [] c = "M" -> "m" [] c = "N" -> "n" [] c = "O" -> "o" [] c = "P" -> "p"
      [] c = "Q" -> "q" [] c = "R" -> "r" [] c = "S" -> "s" [] c = "T" -> "t"
      [] c = "U" -> "u" [] c = "V" -> "v" [] c = "W" -> "w" [] c = "X" -> "x"
      [] c = "Y" -> "y" [] c = "Z" -> "z" [] OTHER -> c

RECURSIVE ToLower(_)
ToLower(s) ==
    IF Len(s) = 0 THEN ""
    ELSE LowerOf(SubSeq(s, 1, 1)) \o ToLower(SubSeq(s, 2, Len(s)))

SeqsUpTo(S, n) == UNION {[1..k -> S] : k \in 0..n}

ContainsAny(s, keywords) == \E k \in keywords : Contains(s, k)

(***************************************************************************)
(* LogoInfo and config.Preferences.                                        *)
(***************************************************************************)
LogoInfo(u, w, h) == [URL |-> u, Width |-> w, Height |-> h, Valid |-> TRUE]

\* a nil *LogoInfo
NoLogo == [URL |-> "", Width |-> 0, Height |-> 0, Valid |-> FALSE]

Preferences(w, h) == [MinWidth |-> w, MinHeight |-> h]

(***************************************************************************)
(* BestLogoSelector: scoring.                                              *)
(***************************************************************************)
dashboardKeywords ==
    {"dashboard", "cover", "hero", "banner", "header-bg", "background",
     "splash", "landing", "homepage", "og-image", "social", "twitter",
     "facebook", "linkedin"}

isDashboardImage(logo, url) ==
    \/ logo.Width > 800
    \/ logo.Height > 600
    \/ ContainsAny(url, dashboardKeywords)

socialKeywords ==
    {"og-image", "twitter-image", "facebook-image", "social-image",
     "meta-image", "share-image", "preview-image"}

isSocialMediaImage(url) == ContainsAny(url, socialKeywords)

partnerKeywords ==
    {"pci", "dss", "iso", "certified", "award", "badge", "credit-card",
     "visa", "mastercard", "amex", "rupay", "bank", "payment", "security",
     "ssl", "trust", "partner", "sponsor", "collaboration", "alliance"}

isPartnerLogo(url) == ContainsAny(url, partnerKeywords)

adKeywords ==
    {"advertisement", "ad", "promotion", "banner", "campaign", "offer",
     "deal", "discount", "sale", "limited-time", "testimonial", "review",
     "rating", "feedback", "hero", "cover", "background", "splash"}

isAdvertisement(url) == ContainsAny(url, adKeywords)

\* float64(Width) / float64(Height) >= 0.5 && <= 2.0; a division by zero gives
\* +Inf, -Inf or NaN, for which the comparison is false
aspectRatioOK(w, h) ==
    IF h > 0 THEN 2 * w >= h /\ w <= 2 * h
    ELSE IF h < 0 THEN 2 * w <= h /\ w >= 2 * h
    ELSE FALSE

\* faulty variant of areaScore: the bounds of the middle bucket are excluded
areaScoreOpen(area) ==
    IF area > 10000 /\ area < 100000 THEN 8
    ELSE IF area >= 1000 /\ area < 10000 THEN 5
    ELSE IF area > 100000 THEN -10
    ELSE 0

areaScore(area) ==
    IF area >= 10000 /\ area <= 100000 THEN 8
    ELSE IF area >= 1000 /\ area < 10000 THEN 5
    ELSE IF area > 100000 THEN -10
    ELSE 0

calculateLogoScore(logo, prefs) ==
    LET url == ToLower(logo.URL) IN
      (IF logo.Width >= prefs.MinWidth /\ logo.Height >= prefs.MinHeight
         THEN 10 ELSE -20)
    + (IF Contains(url, "logo.clearbit.com") THEN 15 ELSE 0)
    + (IF Contains(url, "favicon.ico") THEN 12 ELSE 0)
    + (IF Contains(url, "apple-touch-icon") THEN 10 ELSE 0)
    + (IF Contains(url, ".svg") THEN 8 ELSE 0)
    + (IF isDashboardImage(logo, url) THEN -30 ELSE 0)
    + (IF isSocialMediaImage(url) THEN -25 ELSE 0)
    + (IF isPartnerLogo(url) THEN -40 ELSE 0)
    + (IF isAdvertisement(url) THEN -35 ELSE 0)
    + (IF logo.Width = logo.Height THEN 5 ELSE 0)
    + (IF aspectRatioOK(logo.Width, logo.Height) THEN 3 ELSE 0)
    + areaScore(logo.Width * logo.Height)
    + (IF Contains(url, ".png") THEN 3 ELSE 0)
    + (IF logo.Width < 32 \/ logo.Height < 32 THEN -15 ELSE 0)

(***************************************************************************)
(* BestLogoSelector.SelectBest: the loop over logos[i..], carrying best    *)
(* and bestScore.                                                          *)
(***************************************************************************)
\* the sentinel bestScore starts from
initialBestScore == -1

\* faulty variant of betterScore: ties replace the best, so the last of
\* several equal logos wins
betterScoreTies(score, bestScore) == score >= bestScore

\* faulty variant of betterScore: the comparison depends on whether the
\* selector has been used before
betterScoreSecondCall(score, bestScore) ==
    IF selPc = "done" THEN score >= bestScore ELSE score > bestScore

\* faulty variant of betterScore: best is set only while it is unset
betterScoreUnset(score, bestScore) == bestScore = initialBestScore

betterScore(score, bestScore) == score > bestScore

RECURSIVE selectLoop(_, _, _, _, _)
selectLoop(logos, prefs, i, best, bestScore) ==
    IF i > Len(logos) THEN best
    ELSE LET score == calculateLogoScore(logos[i], prefs) IN
         IF betterScore(score, bestScore)
         THEN selectLoop(logos, prefs, i + 1, logos[i], score)
         ELSE selectLoop(logos, prefs, i + 1, best, bestScore)

SelectBest(logos, prefs) ==
    IF Len(logos) = 0 THEN NoLogo
    ELSE selectLoop(logos, prefs, 1, NoLogo, initialBestScore)

(***************************************************************************)
(* LogoCrawler.sortLogosWithBestFirst.                                     *)
(***************************************************************************)
RECURSIVE filterURL(_, _, _)
filterURL(logos, url, same) ==
    IF Len(logos) = 0 THEN <<>>
    ELSE IF (Head(logos).URL = url) = same
         THEN <<Head(logos)>> \o filterURL(Tail(logos), url, same)
         ELSE filterURL(Tail(logos), url, same)

\* faulty variant of sortLogosWithBestFirst: the other logos are not appended
sortLogosBestOnly(logos, best) ==
    IF best = NoLogo \/ Len(logos) <= 1 THEN logos
    ELSE filterURL(logos, best.URL, TRUE)

sortLogosWithBestFirst(logos, best) ==
    IF best = NoLogo \/ Len(logos) <= 1 THEN logos
    ELSE filterURL(logos, best.URL, TRUE) \o filterURL(logos, best.URL, FALSE)

(***************************************************************************)
(* Idle values: each specification leaves the other parts at these.        *)
(***************************************************************************)
NoTask == [publisher |-> "", index |-> -1]

NoResult == [Publisher |-> "", Logos |-> <<>>, Best |-> NoLogo, Error |-> "",
             Index |-> -1]

OrchestratorIdle ==
    /\ publishers = <<>>
    /\ maxWorkers = 0
    /\ started = FALSE
    /\ sendIdx = 0
    /\ publisherChan = <<>>
    /\ pubClosed = FALSE
    /\ resultChan = <<>>
    /\ resClosed = FALSE
    /\ wpc = <<>>
    /\ wtask = <<>>
    /\ wresult = <<>>
    /\ wdefers = <<>>
    /\ wg = 0
    /\ results = <<>>
    /\ mainpc = "idle"
    /\ faulted = {}
    /\ taken = <<>>
    /\ computed = <<>>

ValidatorIdle ==
    /\ candidates = <<>>
    /\ cpc = <<>>
    /\ semaphore = 0
    /\ vresults = <<>>
    /\ vwg = 0
    /\ vclosed = FALSE
    /\ valid = <<>>
    /\ ctxDone = FALSE
    /\ vpc = "idle"
    /\ fpLogos = <<>>
    /\ fpBest = NoLogo
    /\ sent = <<>>

SelectorIdle ==
    /\ selLogos = <<>>
    /\ selPrefs = Preferences(0, 0)
    /\ selBest = NoLogo
    /\ selBest2 = NoLogo
    /\ selSorted = <<>>
    /\ selPc = "idle"

ExtractorIdle ==
    /\ exInput = ""
    /\ exDomain = ""
    /\ exUrls = <<>>
    /\ exAll = <<>>
    /\ exProbed = 0
    /\ exFailed = 0
    /\ exOut = <<>>
    /\ exPc = "idle"

AppIdle ==
    /\ mwEnv = ""
    /\ mwCpus = 0
    /\ mwOut = 0
    /\ mwPc = "idle"

ScoreIdle ==
    /\ scLogo = NoLogo
    /\ scPrefs = Preferences(0, 0)
    /\ scScore = 0
    /\ scPc = "idle"

ParallelIdle ==
    /\ pcands = <<>>
    /\ pcpc = <<>>
    /\ psem = <<>>
    /\ pctx = <<>>
    /\ pres = <<>>
    /\ pwg = <<>>
    /\ pclosed = <<>>
    /\ pvalid = <<>>
    /\ ppc = <<>>

ImgIdle ==
    /\ imDomain = ""
    /\ imPage = <<>>
    /\ imOut = <<>>
    /\ imPc = "idle"

\* the parts that the specifications of the worker pool, of one validation
\* and of SelectBest leave alone
ExtrasIdle ==
    /\ ExtractorIdle
    /\ AppIdle
    /\ ScoreIdle
    /\ ParallelIdle
    /\ ImgIdle

(***************************************************************************)
(* FetchPublisherLogos as seen by a worker: the validator returns some     *)
(* list of validated logos of the organization's site (SpecV models how),  *)
(* then SelectBest and sortLogosWithBestFirst are applied.                 *)
(***************************************************************************)
PublisherNames == {"a.co", "b.co"}

\* the publishers file: the two sites in turn, so that a longer list names a
\* site twice
publisherList(n) == [i \in 1..n |-> IF i % 2 = 1 THEN "a.co" ELSE "b.co"]

smallLogo(domain) == LogoInfo("https://" \o domain \o "/favicon.ico", 20, 20)

bigLogo(domain) == LogoInfo("https://" \o domain \o "/logo.png", 150, 150)

\* what ValidateConcurrently can return for the site: nothing (every fetch
\* failed) or both images
crawlOutputs(domain) == {<<>>, <<smallLogo(domain), bigLogo(domain)>>}

\* the prefs argument (config.yaml)
orchPrefs == Preferences(120, 120)

FetchPublisherLogos(validated, prefs) ==
    LET best == SelectBest(validated, prefs) IN
    [Logos |-> sortLogosWithBestFirst(validated, best), Best |-> best]

\* FetchPublisherLogos(task.publisher, prefs) for each site and each list the
\* validator can return, evaluated once
fetchTable ==
    [d \in PublisherNames |->
        [v \in crawlOutputs(d) |-> FetchPublisherLogos(v, orchPrefs)]]

(***************************************************************************)
(* FetchPublishersConcurrently.                                            *)
(***************************************************************************)
NoError == ""

PanicError == "panic occurred"

\* faulty variant of publisherTask: every task carries the index of the first
publisherTaskStaleIndex(pubs, i) == [publisher |-> pubs[i + 1], index |-> 0]

\* the task the sender builds for the 0-based input index i
publisherTask(pubs, i) == [publisher |-> pubs[i + 1], index |-> i]

PublisherResult(task, fetched) ==
    [Publisher |-> task.publisher, Logos |-> fetched.Logos,
     Best |-> fetched.Best, Error |-> NoError, Index |-> task.index]

\* faulty variant of workerCount: a non-positive maxWorkers is replaced by 1
workerCountAtLeastOne(n) == IF n > 0 THEN n ELSE 1

\* faulty variant of workerCount: the launch loop runs once too often
workerCountInclusive(n) == IF n >= 0 THEN n + 1 ELSE 0

\* number of worker goroutines the launch loop starts
workerCount(n) == IF n > 0 THEN n ELSE 0

\* sort.Slice by Index; it is not stable, so results of equal Index may come
\* out in either order
sortByIndex(rs) ==
    IF Len(rs) = 0 THEN {<<>>}
    ELSE {[i \in 1..Len(rs) |-> rs[q[i]]] :
            q \in {f \in Permutations(1..Len(rs)) :
                     \A i, j \in 1..Len(rs) :
                        i < j => rs[f[i]].Index <= rs[f[j]].Index}}

Init ==
    /\ publishers \in {publisherList(n) : n \in 0..MaxPublishers}
    /\ maxWorkers \in -1..MaxWorkersBound
    /\ started = FALSE
    /\ sendIdx = 0
    /\ publisherChan = <<>>
    /\ pubClosed = FALSE
    /\ resultChan = <<>>
    /\ resClosed = FALSE
    /\ wpc = <<>>
    /\ wtask = <<>>
    /\ wresult = <<>>
    /\ wdefers = <<>>
    /\ wg = 0
    /\ results = <<>>
    /\ mainpc = "start"
    /\ faulted = {}
    /\ taken = <<>>
    /\ computed = <<>>
    /\ ValidatorIdle
    /\ SelectorIdle
    /\ ExtrasIdle

Workers == DOMAIN wpc

\* the goroutines run until the process dies
Alive == started /\ mainpc # "crashed"

\* len(publishers) == 0: return nil
ReturnNil ==
    /\ mainpc = "start"
    /\ Len(publishers) = 0
    /\ mainpc' = "done"
    /\ UNCHANGED <<publishers, maxWorkers, started, sendIdx, publisherChan,
                   pubClosed, resultChan, resClosed, wpc, wtask, wresult,
                   wdefers, wg, results, faulted, taken, computed, vvars, svars, xvars>>

\* make the channels, start the workers (wg.Add(1) each), the sender and the
\* closer; the main goroutine goes on to collect
Start ==
    /\ mainpc = "start"
    /\ Len(publishers) > 0
    /\ started' = TRUE
    /\ wpc' = [w \in 1..workerCount(maxWorkers) |-> "recv"]
    /\ wtask' = [w \in 1..workerCount(maxWorkers) |-> NoTask]
    /\ wresult' = [w \in 1..workerCount(maxWorkers) |-> NoResult]
    /\ wdefers' = [w \in 1..workerCount(maxWorkers) |-> <<>>]
    /\ wg' = workerCount(maxWorkers)
    /\ mainpc' = "collect"
    /\ UNCHANGED <<publishers, maxWorkers, sendIdx, publisherChan, pubClosed,
                   resultChan, resClosed, results, faulted, taken, computed, vvars, svars, xvars>>

\* sender goroutine: publisherChan <- publisherTask{publisher, index}
SendTask ==
    /\ Alive
    /\ ~pubClosed
    /\ sendIdx < Len(publishers)
    /\ Len(publisherChan) < Len(publishers)
    /\ publisherChan' = Append(publisherChan, publisherTask(publishers, sendIdx))
    /\ sendIdx' = sendIdx + 1
    /\ UNCHANGED <<publishers, maxWorkers, started, pubClosed, resultChan,
                   resClosed, wpc, wtask, wresult, wdefers, wg, results,
                   mainpc, faulted, taken, computed, vvars, svars, xvars>>

\* sender goroutine: defer close(publisherChan)
ClosePublisherChan ==
    /\ Alive
    /\ ~pubClosed
    /\ sendIdx = Len(publishers)
    /\ pubClosed' = TRUE
    /\ UNCHANGED <<publishers, maxWorkers, started, sendIdx, publisherChan,
                   resultChan, resClosed, wpc, wtask, wresult, wdefers, wg,
                   results, mainpc, faulted, taken, computed, vvars, svars, xvars>>

\* worker: for task := range publisherChan (a task is received)
WorkerRecv(w) ==
    /\ Alive
    /\ wpc[w] = "recv"
    /\ Len(publisherChan) > 0
    /\ wtask' = [wtask EXCEPT ![w] = Head(publisherChan)]
    /\ publisherChan' = Tail(publisherChan)
    /\ taken' = Append(taken, Head(publisherChan).index)
    /\ wpc' = [wpc EXCEPT ![w] = "fetch"]
    /\ UNCHANGED <<publishers, maxWorkers, started, sendIdx, pubClosed,
                   resultChan, resClosed, wresult, wdefers, wg, results,
                   mainpc, faulted, computed, vvars, svars, xvars>>

\* worker: the range loop ends (channel closed and drained); the deferred
\* closures run with recover() = nil and do nothing, then wg.Done()
WorkerLoopExit(w) ==
    /\ Alive
    /\ wpc[w] = "recv"
    /\ Len(publisherChan) = 0
    /\ pubClosed
    /\ wpc' = [wpc EXCEPT ![w] = "exit"]
    /\ wg' = wg - 1
    /\ UNCHANGED <<publishers, maxWorkers, started, sendIdx, publisherChan,
                   pubClosed, resultChan, resClosed, wtask, wresult, wdefers,
                   results, mainpc, faulted, taken, computed, vvars, svars, xvars>>

\* worker: FetchPublisherLogos returns; result is built and the recover
\* closure, which captures this iteration's result, is deferred
WorkerFetchDone(w) ==
    /\ Alive
    /\ wpc[w] = "fetch"
    /\ \E validated \in crawlOutputs(wtask[w].publisher) :
         LET fetched == fetchTable[wtask[w].publisher][validated]
             result == PublisherResult(wtask[w], fetched) IN
         /\ wresult' = [wresult EXCEPT ![w] = result]
         /\ wdefers' = [wdefers EXCEPT ![w] = Append(@, result)]
         /\ computed' = (wtask[w].index :>
                           [Validated |-> validated, Logos |-> fetched.Logos,
                            Best |-> fetched.Best]) @@ computed
    /\ wpc' = [wpc EXCEPT ![w] = "send"]
    /\ UNCHANGED <<publishers, maxWorkers, started, sendIdx, publisherChan,
                   pubClosed, resultChan, resClosed, wtask, wg, results,
                   mainpc, faulted, taken, vvars, svars, xvars>>

\* worker: resultChan <- result (line 258), then the next iteration
WorkerSend(w) ==
    /\ Alive
    /\ wpc[w] = "send"
    /\ ~resClosed
    /\ Len(resultChan) < Len(publishers)
    /\ resultChan' = Append(resultChan, wresult[w])
    /\ wpc' = [wpc EXCEPT ![w] = "recv"]
    /\ UNCHANGED <<publishers, maxWorkers, started, sendIdx, publisherChan,
                   pubClosed, resClosed, wtask, wresult, wdefers, wg, results,
                   mainpc, faulted, taken, computed, vvars, svars, xvars>>

\* worker: FetchPublisherLogos panics.  The recover closure of this iteration
\* is not deferred yet (the defer statement follows the call), so the panic
\* unwinds to the closures deferred by the earlier iterations of this worker:
\*  - none (the worker's first task): wg.Done() runs and the panic leaves the
\*    goroutine, which ends the process;
\*  - otherwise the most recent closure recovers; the result it captured is
\*    that of the previous task, which gets the error and is sent again.
WorkerPanic(w) ==
    /\ Alive
    /\ wpc[w] = "fetch"
    /\ faulted' = faulted \cup {wtask[w].index}
    /\ IF Len(wdefers[w]) = 0
       THEN /\ wg' = wg - 1
            /\ wpc' = [wpc EXCEPT ![w] = "exit"]
            /\ mainpc' = "crashed"
            /\ UNCHANGED wresult
       ELSE /\ wresult' = [wresult EXCEPT ![w] =
                   [wdefers[w][Len(wdefers[w])] EXCEPT !.Error = PanicError]]
            /\ wpc' = [wpc EXCEPT ![w] = "recover"]
            /\ UNCHANGED <<wg, mainpc>>
    /\ UNCHANGED <<publishers, maxWorkers, started, sendIdx, publisherChan,
                   pubClosed, resultChan, resClosed, wtask, wdefers, results,
                   taken, computed, vvars, svars, xvars>>

\* worker: the recovering closure sends (line 254); the goroutine function
\* then returns: the older closures see recover() = nil, wg.Done() runs
WorkerRecoverSend(w) ==
    /\ Alive
    /\ wpc[w] = "recover"
    /\ ~resClosed
    /\ Len(resultChan) < Len(publishers)
    /\ resultChan' = Append(resultChan, wresult[w])
    /\ wpc' = [wpc EXCEPT ![w] = "exit"]
    /\ wg' = wg - 1
    /\ UNCHANGED <<publishers, maxWorkers, started, sendIdx, publisherChan,
                   pubClosed, resClosed, wtask, wresult, wdefers, results,
                   mainpc, faulted, taken, computed, vvars, svars, xvars>>

\* closer goroutine: wg.Wait(); close(resultChan)
CloseResultChan ==
    /\ Alive
    /\ ~resClosed
    /\ wg = 0
    /\ resClosed' = TRUE
    /\ UNCHANGED <<publishers, maxWorkers, started, sendIdx, publisherChan,
                   pubClosed, resultChan, wpc, wtask, wresult, wdefers, wg,
                   results, mainpc, faulted, taken, computed, vvars, svars, xvars>>

\* main: for result := range resultChan { results = append(results, result) }
Collect ==
    /\ mainpc = "collect"
    /\ Len(resultChan) > 0
    /\ results' = Append(results, Head(resultChan))
    /\ resultChan' = Tail(resultChan)
    /\ UNCHANGED <<publishers, maxWorkers, started, sendIdx, publisherChan,
                   pubClosed, resClosed, wpc, wtask, wresult, wdefers, wg,
                   mainpc, faulted, taken, computed, vvars, svars, xvars>>

\* main: the range ends, sort.Slice, return results
Return ==
    /\ mainpc = "collect"
    /\ Len(resultChan) = 0
    /\ resClosed
    /\ results' \in sortByIndex(results)
    /\ mainpc' = "done"
    /\ UNCHANGED <<publishers, maxWorkers, started, sendIdx, publisherChan,
                   pubClosed, resultChan, resClosed, wpc, wtask, wresult,
                   wdefers, wg, faulted, taken, computed, vvars, svars, xvars>>

Next ==
    \/ ReturnNil
    \/ Start
    \/ SendTask
    \/ ClosePublisherChan
    \/ \E w \in Workers : WorkerRecv(w)
    \/ \E w \in Workers : WorkerLoopExit(w)
    \/ \E w \in Workers : WorkerFetchDone(w)
    \/ \E w \in Workers : WorkerSend(w)
    \/ \E w \in Workers : WorkerPanic(w)
    \/ \E w \in Workers : WorkerRecoverSend(w)
    \/ CloseResultChan
    \/ Collect
    \/ Return

Spec == Init /\ [][Next]_vars

\* Scheduling of FetchPublishersConcurrently: the Go scheduler runs every
\* runnable goroutine, and every FetchPublisherLogos call ends, by returning
\* or by panicking.  One condition per kind of goroutine: the caller, the
\* sender, the closer, and the workers (while some worker can take a step,
\* some worker does).
Fair ==
    /\ WF_vars(ReturnNil \/ Start \/ Collect \/ Return)
    /\ WF_vars(SendTask \/ ClosePublisherChan)
    /\ WF_vars(CloseResultChan)
    /\ WF_vars(\E w \in Workers :
                  \/ WorkerRecv(w) \/ WorkerLoopExit(w)
                  \/ WorkerFetchDone(w) \/ WorkerPanic(w)
                  \/ WorkerSend(w) \/ WorkerRecoverSend(w))

SpecFair == Init /\ [][Next]_vars /\ Fair

(***************************************************************************)
(* Claims about FetchPublishersConcurrently.                               *)
(***************************************************************************)
Indexes == 0..(Len(publishers) - 1)

ResultsOf(i) == {k \in DOMAIN results : results[k].Index = i}

\* C1 (as claimed): for a non-empty input and maxWorkers >= 1 the returned
\* sequence is ordered by original index: the result at position i has
\* Index = i and Publisher = publishers[i], whatever the completion order.
C1_OutputOrderedByIndex ==
    mainpc = "done" /\ Len(publishers) > 0 /\ maxWorkers >= 1 =>
        \A k \in DOMAIN results :
            /\ results[k].Index = k - 1
            /\ k <= Len(publishers)
            /\ results[k].Publisher = publishers[k]

\* C2: when no task faults and maxWorkers >= 1, the output has as many results
\* as there are input organizations and every input index appears in exactly
\* one result.
C2_OneResultPerIndex ==
    mainpc = "done" /\ faulted = {} /\ maxWorkers >= 1 =>
        /\ Len(results) = Len(publishers)
        /\ \A i \in Indexes : Cardinality(ResultsOf(i)) = 1

\* C2 witness: a fault-free run of two workers over several organizations
\* has returned.
C2_Witness ==
    /\ mainpc = "done"
    /\ faulted = {}
    /\ maxWorkers >= 2
    /\ Len(publishers) >= 2
    /\ Len(results) = Len(publishers)

\* C3 (as claimed): a panic inside FetchPublisherLogos never escapes the
\* worker, and the output holds a result with the Index and Publisher of the
\* faulting organization and a populated Error.
C3_FaultBecomesErrorResult ==
    /\ mainpc # "crashed"
    /\ mainpc = "done" =>
         \A i \in faulted :
            \E k \in DOMAIN results :
                /\ results[k].Index = i
                /\ results[k].Publisher = publishers[i + 1]
                /\ results[k].Error # NoError

\* C4 (as claimed): when some organization faults, every organization that
\* does not fault still has exactly one result, with no Error and its own
\* logos and best.
C4_SiblingsKeepTheirResult ==
    mainpc = "done" /\ faulted # {} =>
        \A i \in Indexes \ faulted :
            /\ Cardinality(ResultsOf(i)) = 1
            /\ i \in DOMAIN computed
            /\ \A k \in ResultsOf(i) :
                 /\ results[k].Error = NoError
                 /\ results[k].Logos = computed[i].Logos
                 /\ results[k].Best = computed[i].Best

\* C5 (as claimed): in every returned result, Error set implies Logos empty
\* and Best absent.
C5_ErrorImpliesNoLogos ==
    mainpc = "done" =>
        \A k \in DOMAIN results :
            results[k].Error # NoError =>
                results[k].Logos = <<>> /\ results[k].Best = NoLogo

\* C6 (as claimed): a task that completes without a fault yields a result with
\* Error = none; when all of its fetches and validations failed the result has
\* an empty logo list, Best = none and Error = none.
C6_NoFaultNoError ==
    mainpc = "done" =>
        \A k \in DOMAIN results :
            results[k].Index \notin faulted =>
                /\ results[k].Error = NoError
                /\ computed[results[k].Index].Validated = <<>> =>
                     results[k].Logos = <<>> /\ results[k].Best = NoLogo

(***************************************************************************)
(* LogoCrawler.FetchPublisherLogos for one organization: the validator of  *)
(* a fresh LogoCrawler (NewLogoValidator(10)) validates the candidates,    *)
(* then the best logo is selected and the list sorted.                     *)
(***************************************************************************)
\* NewLogoValidator(10): capacity of the semaphore channel
SemCap == 10

\* candidate URLs that serve an image
ImageURLs == {"https://a.co/favicon.ico", "https://a.co/logo.png"}

\* what getImageDimensionsWithContext can return for an image URL while the
\* context is live: (0, 0) on a failed GET or decode, else the decoded
\* width and height, which a malformed header can make zero or negative
imageDims == {<<0, 0>>, <<20, 20>>, <<150, 150>>, <<150, 0>>, <<-1, 20>>}

\* two organizations that each serve a 150x150 image at /logo.png and a 20x20
\* image at /images/logo.png (both are fallback paths of ExtractCandidates)
ScenarioSites == {"example.com", "adobe.com"}

scenarioBig(domain) == "https://" \o domain \o "/logo.png"

scenarioSmall(domain) == "https://" \o domain \o "/images/logo.png"

\* a third fallback path, at which a site can serve its 150x150 image too
scenarioTwin(domain) == "https://" \o domain \o "/assets/logo.png"

\* the candidates of the site that serve an image, in the order of the
\* fallback list
scenarioCandidates(domain) == <<scenarioBig(domain), scenarioSmall(domain)>>

\* the candidates of a site that serves the 150x150 image at both paths
twinCandidates(domain) ==
    <<scenarioBig(domain), scenarioTwin(domain), scenarioSmall(domain)>>

ScenarioURLs ==
    {scenarioBig(d) : d \in ScenarioSites}
        \cup {scenarioSmall(d) : d \in ScenarioSites}
        \cup {scenarioTwin(d) : d \in ScenarioSites}

\* what image.DecodeConfig reads from the image served at a scenario URL
scenarioDims(url) ==
    IF Contains(url, "/images/") THEN <<20, 20>> ELSE <<150, 150>>

\* faulty variant of getImageDimensionsWithContext: the request is not bound
\* to the context
getImageDimensionsNoContext(url, done) ==
    IF url \in ImageURLs THEN imageDims
    ELSE IF url \in ScenarioURLs THEN {<<0, 0>>, scenarioDims(url)}
    ELSE {<<0, 0>>}

\* getImageDimensionsWithContext: with the context done, Client.Do fails
getImageDimensionsWithContext(url, done) ==
    IF done THEN {<<0, 0>>}
    ELSE IF url \in ImageURLs THEN imageDims
    ELSE IF url \in ScenarioURLs THEN {<<0, 0>>, scenarioDims(url)}
    ELSE {<<0, 0>>}

\* faulty variant of validDimensions: one positive dimension is enough
validDimensionsEither(w, h) == w > 0 \/ h > 0

\* validateSingleLogo: width > 0 && height > 0
validDimensions(w, h) == w > 0 /\ h > 0

\* faulty variant of permitFree: the capacity is not tested
permitFreeAlways(held) == TRUE

\* a send on the semaphore channel can proceed
permitFree(held) == held < SemCap

\* faulty variant of releasePermit: the permit is kept
releasePermitNever(held) == held

\* defer func() { <-lv.semaphore }()
releasePermit(held) == held - 1

\* faulty variant of candidateURL: every goroutine reads the loop variable
\* after the loop has ended
candidateURLShared(cands, c) == cands[Len(cands)]

\* for _, url := range candidates { go lv.validateSingleLogo(ctx, url, ...) }:
\* the url argument of the goroutine started for position c
candidateURL(cands, c) == cands[c]

\* faulty variant of afterFetch: a candidate whose fetch or decode failed goes
\* back to wait for a permit and tries again
afterFetchRetry(ok) == IF ok THEN "done" ELSE "wait"

\* validateSingleLogo: the function returns after the fetch, whether or not
\* it has sent a LogoInfo
afterFetch(ok) == "done"

\* faulty variant of resultsCap: the results channel has a single slot
resultsCapOne(n) == 1

\* results := make(chan LogoInfo, len(candidates)): capacity of the channel
resultsCap(n) == n

\* faulty variant of allDone: the closer does not wait for the last goroutine
allDoneButOne(counter) == counter <= 1

\* wg.Wait() returns
allDone(counter) == counter = 0

\* a list of n candidates: one image URL, then pages that are no image
bigCandidateList(n) ==
    [i \in 1..n |-> IF i = 1 THEN "https://a.co/favicon.ico"
                    ELSE "https://a.co/path" \o ToString(i)]

ValidatorStart ==
    /\ cpc = <<>>
    /\ semaphore = 0
    /\ vresults = <<>>
    /\ vwg = 0
    /\ vclosed = FALSE
    /\ valid = <<>>
    /\ ctxDone = FALSE
    /\ vpc = "start"
    /\ fpLogos = <<>>
    /\ fpBest = NoLogo
    /\ sent = <<>>
    /\ OrchestratorIdle
    /\ SelectorIdle
    /\ ExtrasIdle

InitV ==
    /\ candidates \in SeqsUpTo(ImageURLs, MaxCandidates)
    /\ ValidatorStart

InitVBig ==
    /\ candidates = bigCandidateList(BigCandidates)
    /\ ValidatorStart

Candidates == DOMAIN cpc

\* len(candidates) == 0: return nil
ValidateNil ==
    /\ vpc = "start"
    /\ Len(candidates) = 0
    /\ vpc' = "select"
    /\ UNCHANGED <<candidates, cpc, semaphore, vresults, vwg, vclosed, valid,
                   ctxDone, fpLogos, fpBest, sent, ovars, svars, xvars>>

\* context.WithTimeout, make(chan), wg.Add(1) and go validateSingleLogo for
\* every candidate, the closer goroutine; the caller goes on to collect
ValidateStart ==
    /\ vpc = "start"
    /\ Len(candidates) > 0
    /\ cpc' = [c \in 1..Len(candidates) |-> "wait"]
    /\ vwg' = Len(candidates)
    /\ sent' = [c \in 1..Len(candidates) |-> NoLogo]
    /\ vpc' = "collect"
    /\ UNCHANGED <<candidates, semaphore, vresults, vclosed, valid, ctxDone,
                   fpLogos, fpBest, ovars, svars, xvars>>

\* the 30 s deadline of the call's context fires
Deadline ==
    /\ vpc = "collect"
    /\ ~ctxDone
    /\ ctxDone' = TRUE
    /\ UNCHANGED <<candidates, cpc, semaphore, vresults, vwg, vclosed, valid,
                   vpc, fpLogos, fpBest, sent, ovars, svars, xvars>>

\* validateSingleLogo: select case lv.semaphore <- struct{}{} (it may be
\* chosen also when ctx.Done() is ready)
Acquire(c) ==
    /\ cpc[c] = "wait"
    /\ permitFree(semaphore)
    /\ semaphore' = semaphore + 1
    /\ cpc' = [cpc EXCEPT ![c] = "fetch"]
    /\ UNCHANGED <<candidates, vresults, vwg, vclosed, valid, ctxDone, vpc,
                   fpLogos, fpBest, sent, ovars, svars, xvars>>

\* validateSingleLogo: select case <-ctx.Done(): return (wg.Done deferred)
Abandon(c) ==
    /\ cpc[c] = "wait"
    /\ ctxDone
    /\ cpc' = [cpc EXCEPT ![c] = "done"]
    /\ vwg' = vwg - 1
    /\ UNCHANGED <<candidates, semaphore, vresults, vclosed, valid, ctxDone,
                   vpc, fpLogos, fpBest, sent, ovars, svars, xvars>>

\* validateSingleLogo: the GET completes and getImageDimensionsWithContext
\* returns (the header is decoded from the response that has arrived); a
\* LogoInfo is sent when both dimensions are positive; then the deferred
\* calls run: the permit is released and wg.Done()
FetchDone(c) ==
    /\ cpc[c] = "fetch"
    /\ \E d \in getImageDimensionsWithContext(
                     candidateURL(candidates, c), ctxDone) :
         /\ IF validDimensions(d[1], d[2])
            THEN /\ Len(vresults) < resultsCap(Len(candidates))
                 /\ vresults' = Append(vresults,
                       LogoInfo(candidateURL(candidates, c), d[1], d[2]))
                 /\ sent' = [sent EXCEPT ![c] =
                       LogoInfo(candidateURL(candidates, c), d[1], d[2])]
            ELSE UNCHANGED <<vresults, sent>>
         /\ cpc' = [cpc EXCEPT ![c] =
                       afterFetch(validDimensions(d[1], d[2]))]
    /\ semaphore' = releasePermit(semaphore)
    /\ vwg' = vwg - 1
    /\ UNCHANGED <<candidates, vclosed, valid, ctxDone, vpc, fpLogos, fpBest,
                   ovars, svars, xvars>>

\* closer goroutine: wg.Wait(); close(results)
CloseResults ==
    /\ vpc = "collect"
    /\ ~vclosed
    /\ allDone(vwg)
    /\ vclosed' = TRUE
    /\ UNCHANGED <<candidates, cpc, semaphore, vresults, vwg, valid, ctxDone,
                   vpc, fpLogos, fpBest, sent, ovars, svars, xvars>>

\* for logo := range results { valid = append(valid, logo) }
CollectLogo ==
    /\ vpc = "collect"
    /\ Len(vresults) > 0
    /\ valid' = Append(valid, Head(vresults))
    /\ vresults' = Tail(vresults)
    /\ UNCHANGED <<candidates, cpc, semaphore, vwg, vclosed, ctxDone, vpc,
                   fpLogos, fpBest, sent, ovars, svars, xvars>>

\* the range ends: ValidateConcurrently returns valid
ValidateReturn ==
    /\ vpc = "collect"
    /\ Len(vresults) = 0
    /\ vclosed
    /\ vpc' = "select"
    /\ UNCHANGED <<candidates, cpc, semaphore, vresults, vwg, vclosed, valid,
                   ctxDone, fpLogos, fpBest, sent, ovars, svars, xvars>>

\* FetchPublisherLogos: SelectBest, sortLogosWithBestFirst, return
SelectAndSort ==
    /\ vpc = "select"
    /\ fpBest' = FetchPublisherLogos(valid, orchPrefs).Best
    /\ fpLogos' = FetchPublisherLogos(valid, orchPrefs).Logos
    /\ vpc' = "done"
    /\ UNCHANGED <<candidates, cpc, semaphore, vresults, vwg, vclosed, valid,
                   ctxDone, sent, ovars, svars, xvars>>

NextV ==
    \/ ValidateNil
    \/ ValidateStart
    \/ Deadline
    \/ \E c \in Candidates : Acquire(c)
    \/ \E c \in Candidates : Abandon(c)
    \/ \E c \in Candidates : FetchDone(c)
    \/ CloseResults
    \/ CollectLogo
    \/ ValidateReturn
    \/ SelectAndSort

SpecV == InitV /\ [][NextV]_vars

\* Scheduling of one ValidateConcurrently call: the Go scheduler runs every
\* runnable goroutine, and a fetch ends because utils.Client has a timeout.
\* One condition per kind of goroutine: the caller, the closer, and the
\* validateSingleLogo goroutines (while some of them can take a step, one
\* does).  Nothing forces the deadline to fire before the work is over.
FairV ==
    /\ WF_vars(ValidateNil \/ ValidateStart \/ CollectLogo \/ ValidateReturn)
    /\ WF_vars(CloseResults)
    /\ WF_vars(\E c \in Candidates :
                  Acquire(c) \/ Abandon(c) \/ FetchDone(c))

SpecVFair == InitV /\ [][NextV]_vars /\ FairV

\* either call: FetchPublishersConcurrently over a list of organizations, or
\* FetchPublisherLogos for one organization
InitEither == Init \/ InitV

NextEither == Next \/ NextV

SpecEither == InitEither /\ [][NextEither]_vars

\* the same call with more candidates than permits; the empty-list return
\* cannot happen
NextVBig ==
    \/ ValidateStart
    \/ Deadline
    \/ \E c \in Candidates : Acquire(c)
    \/ \E c \in Candidates : Abandon(c)
    \/ \E c \in Candidates : FetchDone(c)
    \/ CloseResults
    \/ CollectLogo
    \/ ValidateReturn
    \/ SelectAndSort

SpecVBig == InitVBig /\ [][NextVBig]_vars

\* FetchPublisherLogos for an organization of ScenarioSites
InitE ==
    /\ candidates \in {scenarioCandidates(d) : d \in ScenarioSites}
    /\ ValidatorStart

SpecE == InitE /\ [][NextVBig]_vars

\* FetchPublisherLogos for an organization that serves its 150x150 image at
\* two of the fallback paths
InitTwin ==
    /\ candidates \in {twinCandidates(d) : d \in ScenarioSites}
    /\ ValidatorStart

SpecTwin == InitTwin /\ [][NextVBig]_vars

(***************************************************************************)
(* Claims about ValidateConcurrently.                                      *)
(***************************************************************************)
InFlight == {c \in Candidates : cpc[c] = "fetch"}

Waiting == {c \in Candidates : cpc[c] = "wait"}

Returned == vpc \in {"select", "done"}

\* C7: during one ValidateConcurrently call with more than 10 candidates, at
\* most 10 candidates are in flight (holding a permit and fetching) in every
\* reachable state; the others wait for a permit or have finished.
C7_AtMostTenInFlight ==
    Len(candidates) > SemCap =>
        /\ Cardinality(InFlight) <= SemCap
        /\ semaphore = Cardinality(InFlight)

\* C7 witness: all 10 permits are held while another candidate waits.
C7_Witness ==
    /\ Len(candidates) > SemCap
    /\ Cardinality(InFlight) = SemCap
    /\ Waiting # {}

PositiveLogo(l) == l.Width > 0 /\ l.Height > 0 /\ l.Valid = TRUE

\* C8: every LogoInfo produced by ValidateConcurrently has Width > 0,
\* Height > 0 and Valid = true; a candidate whose fetch or decode failed or
\* gave a non-positive dimension is not in the output, and when every
\* candidate fails the output is empty.
C8_OnlyPositiveLogos ==
    /\ \A k \in DOMAIN vresults : PositiveLogo(vresults[k])
    /\ \A k \in DOMAIN valid : PositiveLogo(valid[k])
    /\ Returned =>
         /\ Len(valid) = Cardinality({c \in Candidates : sent[c] # NoLogo})
         /\ \A c \in Candidates :
              sent[c] = NoLogo \/ \E k \in DOMAIN valid : valid[k] = sent[c]
         /\ (\A c \in Candidates : sent[c] = NoLogo) => valid = <<>>

\* C8 witness: the call returned one logo of two candidates; the other
\* candidate failed and is absent.
C8_Witness ==
    /\ vpc = "done"
    /\ ~ctxDone
    /\ Len(candidates) = 2
    /\ Len(valid) = 1

\* C9: once the batch deadline has fired, no candidate that was still waiting
\* for a permit or fetching contributes a logo: from then on no LogoInfo is
\* sent, whether the candidate abandons the wait or takes a permit and
\* fetches.
C9_NothingAfterDeadline ==
    [][ctxDone => sent' = sent]_vars

\* C9 witness: the deadline has fired while every permit is held by a
\* fetching candidate and another candidate still waits for a permit.
C9_Witness ==
    /\ ctxDone
    /\ Cardinality(InFlight) = SemCap
    /\ Waiting # {}

\* the score of a URL's keywords: the score of a logo of fixed size
urlScore(url) == calculateLogoScore(LogoInfo(url, 150, 150), orchPrefs)

\* C12 (as claimed): for an organization whose validated logos are a 150x150
\* image and a 20x20 image with URLs of equal keyword bonuses and penalties,
\* and preferences 120x120, Best is the 150x150 logo in whichever order the
\* two validations complete, and the returned list holds both logos.
C12_BigLogoIsBest ==
    /\ vpc = "done"
    /\ Len(valid) = 2
    /\ \E i, j \in DOMAIN valid :
         /\ valid[i].Width = 150 /\ valid[i].Height = 150
         /\ valid[j].Width = 20 /\ valid[j].Height = 20
         /\ urlScore(valid[i].URL) = urlScore(valid[j].URL)
    => /\ fpBest # NoLogo
       /\ fpBest.Width = 150 /\ fpBest.Height = 150
       /\ Len(fpLogos) = 2
       /\ \A i \in DOMAIN valid : \E k \in DOMAIN fpLogos : fpLogos[k] = valid[i]

(***************************************************************************)
(* SpecSel: SelectBest applied to every sequence of validated logos of     *)
(* length 0..MaxLogos.                                                     *)
(***************************************************************************)
SelURLs ==
    {"https://a.co/favicon.ico", "https://a.co/logo.png",
     "https://a.co/images/logo.png", "https://a.co/Header.PNG"}

SelDims == {<<20, 20>>, <<150, 150>>, <<900, 700>>}

SelLogoUniverse == {LogoInfo(u, d[1], d[2]) : u \in SelURLs, d \in SelDims}

\* config.yaml of the README (min 120 x 120) and a permissive configuration
PrefsSet == {Preferences(120, 120), Preferences(16, 16)}

InitSel ==
    /\ OrchestratorIdle
    /\ ValidatorIdle
    /\ ExtrasIdle
    /\ selLogos \in SeqsUpTo(SelLogoUniverse, MaxLogos)
    /\ selPrefs \in PrefsSet
    /\ selBest = NoLogo
    /\ selBest2 = NoLogo
    /\ selSorted = <<>>
    /\ selPc = "call"

\* best := selector.SelectBest(logos, prefs); the function assigns neither to
\* an element of logos nor to prefs; FetchPublisherLogos then calls
\* sortLogosWithBestFirst(logos, best)
CallSelectBest ==
    /\ selPc = "call"
    /\ selBest' = SelectBest(selLogos, selPrefs)
    /\ selSorted' = sortLogosWithBestFirst(selLogos, selBest')
    /\ selPc' = "done"
    /\ UNCHANGED <<selLogos, selPrefs, selBest2, ovars, vvars, xvars>>

\* a second call with the slice and the preferences the first call was given
CallSelectBestAgain ==
    /\ selPc = "done"
    /\ selBest2' = SelectBest(selLogos, selPrefs)
    /\ selPc' = "twice"
    /\ UNCHANGED <<selLogos, selPrefs, selBest, selSorted, ovars, vvars,
                   xvars>>

NextSel ==
    \/ CallSelectBest
    \/ CallSelectBestAgain

SpecSel == InitSel /\ [][NextSel]_vars

(***************************************************************************)
(* Claims about SelectBest.                                                *)
(***************************************************************************)
MaxScore(logos, prefs) ==
    CHOOSE m \in {calculateLogoScore(logos[i], prefs) : i \in 1..Len(logos)} :
        \A i \in 1..Len(logos) : calculateLogoScore(logos[i], prefs) <= m

FirstMax(logos, prefs) ==
    logos[CHOOSE i \in 1..Len(logos) :
            /\ calculateLogoScore(logos[i], prefs) = MaxScore(logos, prefs)
            /\ \A j \in 1..(i - 1) :
                 calculateLogoScore(logos[j], prefs) < MaxScore(logos, prefs)]

\* C10 (as claimed): SelectBest returns none for an empty input and, for every
\* non-empty sequence, the first logo of maximal score, also when every score
\* is negative.
C10_SelectBestIsFirstMax ==
    selPc = "done" =>
        IF selLogos = <<>> THEN selBest = NoLogo
        ELSE selBest = FirstMax(selLogos, selPrefs)

lowerLetters ==
    {"a", "b", "c", "d", "e", "f", "g", "h", "i", "j", "k", "l", "m", "n",
     "o", "p", "q", "r", "s", "t", "u", "v", "w", "x", "y", "z"}

upperLetters ==
    {"A", "B", "C", "D", "E", "F", "G", "H", "I", "J", "K", "L", "M", "N",
     "O", "P", "Q", "R", "S", "T", "U", "V", "W", "X", "Y", "Z"}

digitChars == {"0", "1", "2", "3", "4", "5", "6", "7", "8", "9"}

CharAt(s, i) == SubSeq(s, i, i)

\* the character class [\w\.-]
isDomainChar(c) ==
    c \in lowerLetters \cup upperLetters \cup digitChars \cup {"_", ".", "-"}

isLowerLetter(c) == c \in lowerLetters

\* positions k of the dot of a match that starts at i: [\w\.-]+ matches
\* s[i..k-1], s[k] is the dot and at least two lower-case letters follow
dotsOfMatch(s, i) ==
    {k \in (i + 1)..(Len(s) - 2) :
        /\ \A j \in i..(k - 1) : isDomainChar(CharAt(s, j))
        /\ CharAt(s, k) = "."
        /\ isLowerLetter(CharAt(s, k + 1))
        /\ isLowerLetter(CharAt(s, k + 2))}

\* faulty variant of pickDot: the first dot is taken
pickDotFirst(K) == CHOOSE k \in K : \A j \in K : k <= j

\* [\w\.-]+ is greedy: it gives back as little as possible, so the dot of the
\* match is the last one that can be
pickDot(K) == CHOOSE k \in K : \A j \in K : j <= k

\* [a-z]{2,} is greedy: the end of the run of lower-case letters from i
RECURSIVE lowerRunEnd(_, _)
lowerRunEnd(s, i) ==
    IF i < Len(s) /\ isLowerLetter(CharAt(s, i + 1))
    THEN lowerRunEnd(s, i + 1)
    ELSE i

\* positions where a match starts
matchStarts(s) == {i \in 1..Len(s) : dotsOfMatch(s, i) # {}}

\* domainRe.MatchString(input)
MatchString(s) == matchStarts(s) # {}

\* domainRe.FindString(input): the leftmost match
FindString(s) ==
    LET i == CHOOSE a \in matchStarts(s) : \A b \in matchStarts(s) : a <= b
        k == pickDot(dotsOfMatch(s, i))
    IN  SubSeq(s, i, lowerRunEnd(s, k + 2))

\* strings.ReplaceAll(s, " ", "")
RECURSIVE removeSpaces(_)
removeSpaces(s) ==
    IF Len(s) = 0 THEN ""
    ELSE IF CharAt(s, 1) = " " THEN removeSpaces(SubSeq(s, 2, Len(s)))
    ELSE CharAt(s, 1) \o removeSpaces(SubSeq(s, 2, Len(s)))

DetectDomain(input) ==
    IF MatchString(input) THEN FindString(input)
    ELSE ToLower(removeSpaces(input)) \o ".com"

(***************************************************************************)
(* LogoExtractor.ExtractCandidates.                                        *)
(***************************************************************************)
\* strings.HasPrefix
HasPrefix(s, prefix) ==
    Len(s) >= Len(prefix) /\ SubSeq(s, 1, Len(prefix)) = prefix

\* extractFromHTML: the base URL and, unless it starts with https://www.,
\* the same with www. inserted (strings.Replace(baseURL, "https://", ..., 1))
baseURLs(baseURL) ==
    IF HasPrefix(baseURL, "https://www.") THEN <<baseURL>>
    ELSE <<baseURL,
           "https://www." \o SubSeq(baseURL, Len("https://") + 1, Len(baseURL))>>

fallbackPaths ==
    <<"/favicon.ico", "/favicon.png", "/favicon.svg", "/apple-touch-icon.png",
      "/apple-touch-icon-precomposed.png", "/logo.png", "/assets/logo.png",
      "/images/logo.png">>

\* faulty variant of getCommonFallbacks: the list stops after the favicons
getCommonFallbacksShort(domain) ==
    [i \in 1..3 |-> "https://" \o domain \o fallbackPaths[i]]

getCommonFallbacks(domain) ==
    [i \in 1..Len(fallbackPaths) |-> "https://" \o domain \o fallbackPaths[i]]

getClearbitLogo(domain) == "https://logo.clearbit.com/" \o domain

\* faulty variant of uniqueLoop: the seen map is not consulted
RECURSIVE uniqueLoopNoSeen(_, _, _)
uniqueLoopNoSeen(list, seen, out) ==
    IF Len(list) = 0 THEN out
    ELSE IF Head(list) # ""
         THEN uniqueLoopNoSeen(Tail(list), seen, Append(out, Head(list)))
         ELSE uniqueLoopNoSeen(Tail(list), seen, out)

\* unique: the loop over list, carrying the seen map and out
RECURSIVE uniqueLoop(_, _, _)
uniqueLoop(list, seen, out) ==
    IF Len(list) = 0 THEN out
    ELSE IF Head(list) # "" /\ Head(list) \notin seen
         THEN uniqueLoop(Tail(list), seen \cup {Head(list)},
                         Append(out, Head(list)))
         ELSE uniqueLoop(Tail(list), seen, out)

unique(list) == uniqueLoop(list, {}, <<>>)

\* the input lines tried
DomainInputs ==
    {"example.com", "www.example.com", "Example Corp", "Example.COM",
     "https://www.example.com/about", "shop.comBar", "my site.io", "",
     "a.b", "..de", "x-y.co.uk", "Acme_1 Labs"}

\* most URLs one page yields
MaxPageCandidates == 2

\* URLs the markup of a page of the domain can yield (each one resolved
\* against the page URL, so none is empty): one equal to a fallback path,
\* one of its own, and one equal to the lookup-service URL
pageURLs(domain) ==
    {"https://" \o domain \o "/favicon.ico",
     "https://cdn." \o domain \o "/brand.svg",
     getClearbitLogo(domain)}

\* what extractFromSingleURL can return: nil when the GET or the parse
\* fails, else the meta, link and img candidates of the page
NoPage == [ok |-> FALSE, candidates |-> <<>>]

extractFromSingleURL(domain) ==
    {NoPage} \cup
    {[ok |-> TRUE, candidates |-> l] :
        l \in SeqsUpTo(pageURLs(domain), MaxPageCandidates)}

\* ExtractCandidates: unique of the page candidates (themselves made unique
\* by extractFromHTML), the fallbacks and the lookup-service URL
ExtractCandidates(domain, allCandidates) ==
    unique(unique(allCandidates) \o getCommonFallbacks(domain)
             \o <<getClearbitLogo(domain)>>)

InitX ==
    /\ OrchestratorIdle
    /\ ValidatorIdle
    /\ SelectorIdle
    /\ ImgIdle
    /\ AppIdle
    /\ ScoreIdle
    /\ ParallelIdle
    /\ exInput \in DomainInputs
    /\ exDomain = ""
    /\ exUrls = <<>>
    /\ exAll = <<>>
    /\ exProbed = 0
    /\ exFailed = 0
    /\ exOut = <<>>
    /\ exPc = "detect"

\* FetchPublisherLogos: domain := lc.processor.DetectDomain(input)
CallDetectDomain ==
    /\ exPc = "detect"
    /\ exDomain' = DetectDomain(exInput)
    /\ exPc' = "extract"
    /\ UNCHANGED <<exInput, exUrls, exAll, exProbed, exFailed, exOut,
                   ovars, vvars, svars, avars, cvars, pvars, ivars>>

\* ExtractCandidates calls extractFromHTML, which lists the base URLs
ExtractStart ==
    /\ exPc = "extract"
    /\ exUrls' = baseURLs("https://" \o exDomain)
    /\ exPc' = "pages"
    /\ UNCHANGED <<exInput, exDomain, exAll, exProbed, exFailed, exOut,
                   ovars, vvars, svars, avars, cvars, pvars, ivars>>

\* extractFromHTML: one iteration of the loop over urls
FetchPage ==
    /\ exPc = "pages"
    /\ Len(exUrls) > 0
    /\ \E page \in extractFromSingleURL(exDomain) :
         /\ exAll' = exAll \o page.candidates
         /\ exFailed' = IF page.ok THEN exFailed ELSE exFailed + 1
    /\ exUrls' = Tail(exUrls)
    /\ exProbed' = exProbed + 1
    /\ UNCHANGED <<exInput, exDomain, exOut, exPc, ovars, vvars, svars, avars, cvars, pvars, ivars>>

\* the loop is over: fallbacks and lookup URL are appended, unique, return
ExtractReturn ==
    /\ exPc = "pages"
    /\ Len(exUrls) = 0
    /\ exOut' = ExtractCandidates(exDomain, exAll)
    /\ exPc' = "done"
    /\ UNCHANGED <<exInput, exDomain, exUrls, exAll, exProbed, exFailed,
                   ovars, vvars, svars, avars, cvars, pvars, ivars>>

NextX ==
    \/ CallDetectDomain
    \/ ExtractStart
    \/ FetchPage
    \/ ExtractReturn

SpecX == InitX /\ [][NextX]_vars

(***************************************************************************)
(* Claims about ExtractCandidates and DetectDomain.                        *)
(***************************************************************************)
\* page candidates, then fallback paths, then the lookup-service URL
CombinedList ==
    exAll \o getCommonFallbacks(exDomain) \o <<getClearbitLogo(exDomain)>>

FirstIndex(list, v) ==
    CHOOSE i \in DOMAIN list :
        list[i] = v /\ \A j \in 1..(i - 1) : list[j] # v

\* C13: the list returned by ExtractCandidates holds no two equal URLs and no
\* empty string, its elements are those of the combined list in the order of
\* their first occurrence there, and deduplicating it again changes nothing.
C13_CandidatesUniqueInFirstOrder ==
    exPc = "done" =>
        /\ \A i, j \in DOMAIN exOut : i # j => exOut[i] # exOut[j]
        /\ \A i \in DOMAIN exOut : exOut[i] # ""
        /\ {exOut[i] : i \in DOMAIN exOut}
             = {CombinedList[i] : i \in DOMAIN CombinedList} \ {""}
        /\ \A i, j \in DOMAIN exOut :
             i < j => FirstIndex(CombinedList, exOut[i])
                        < FirstIndex(CombinedList, exOut[j])
        /\ unique(exOut) = exOut

\* C13 witness: the pages yielded a URL twice and a URL equal to a fallback,
\* and the call returned.
C13_Witness ==
    /\ exPc = "done"
    /\ exFailed = 0
    /\ \E i, j \in DOMAIN exAll : i < j /\ exAll[i] = exAll[j]
    /\ \E i \in DOMAIN exAll :
         exAll[i] = "https://" \o exDomain \o "/favicon.ico"
    /\ Len(exOut) < Len(CombinedList)

\* the eight well-known paths, rooted at https://{domain}, and the
\* lookup-service URL
NineURLs(domain) ==
    << "https://" \o domain \o "/favicon.ico",
       "https://" \o domain \o "/favicon.png",
       "https://" \o domain \o "/favicon.svg",
       "https://" \o domain \o "/apple-touch-icon.png",
       "https://" \o domain \o "/apple-touch-icon-precomposed.png",
       "https://" \o domain \o "/logo.png",
       "https://" \o domain \o "/assets/logo.png",
       "https://" \o domain \o "/images/logo.png",
       "https://logo.clearbit.com/" \o domain >>

\* C14: ExtractCandidates returns for every outcome of the page fetches; the
\* eight fallback URLs and the lookup-service URL are always in the output,
\* and when the GET or the parse failed for every base URL the output is
\* exactly these nine, in this order.
C14_FallbacksAlwaysPresent ==
    exPc = "done" =>
        /\ \A i \in 1..9 :
             \E k \in DOMAIN exOut : exOut[k] = NineURLs(exDomain)[i]
        /\ exFailed = exProbed => exOut = NineURLs(exDomain)

\* C14 witness: both base URLs failed and the call returned.
C14_Witness ==
    /\ exPc = "done"
    /\ exProbed = 2
    /\ exFailed = 2
    /\ Len(exOut) = 9

\* t is a domain-like token: characters of [\w.-], a dot, then two or more
\* lower-case letters up to the end
IsDomainToken(t) ==
    \E k \in 2..(Len(t) - 2) :
        /\ \A j \in 1..(k - 1) : isDomainChar(CharAt(t, j))
        /\ CharAt(t, k) = "."
        /\ \A j \in (k + 1)..Len(t) : isLowerLetter(CharAt(t, j))

TokenSpans(s) ==
    {sp \in (1..Len(s)) \X (1..Len(s)) :
        sp[1] <= sp[2] /\ IsDomainToken(SubSeq(s, sp[1], sp[2]))}

\* the first token: leftmost start, and the longest from there
FirstToken(s) ==
    LET sp == CHOOSE a \in TokenSpans(s) :
                 \A b \in TokenSpans(s) :
                    a[1] < b[1] \/ (a[1] = b[1] /\ a[2] >= b[2])
    IN  SubSeq(s, sp[1], sp[2])

\* C15: DetectDomain has two cases: an input that contains a domain-like
\* token gives the first such token unchanged; any other input gives the
\* input lower-cased, without its spaces, followed by ".com".
C15_DetectDomainTwoCases ==
    exPc \in {"extract", "pages", "done"} =>
        IF TokenSpans(exInput) # {}
        THEN exDomain = FirstToken(exInput)
        ELSE exDomain = ToLower(removeSpaces(exInput)) \o ".com"

\* C15 witness: the input holds a token inside other text, with two dots, and
\* DetectDomain returned.
C15_Witness ==
    /\ exPc = "extract"
    /\ TokenSpans(exInput) # {}
    /\ exDomain # exInput
    /\ exDomain = "www.example.com"

(***************************************************************************)
(* LogoCrawlerApp.getMaxWorkers.                                           *)
(***************************************************************************)
\* most CPUs of the host
MaxCpus == 12

digitValue(c) ==
    CASE c = "0" -> 0 [] c = "1" -> 1 [] c = "2" -> 2 [] c = "3" -> 3
      [] c = "4" -> 4 [] c = "5" -> 5 [] c = "6" -> 6 [] c = "7" -> 7
      [] c = "8" -> 8 [] c = "9" -> 9

\* the value of a string of decimal digits, most significant first
RECURSIVE digitsValue(_, _)
digitsValue(s, acc) ==
    IF Len(s) = 0 THEN acc
    ELSE digitsValue(SubSeq(s, 2, Len(s)), 10 * acc + digitValue(CharAt(s, 1)))

\* strconv.Atoi: an optional sign, then the digits
atoiDigits(s) ==
    IF Len(s) > 0 /\ CharAt(s, 1) \in {"+", "-"}
    THEN SubSeq(s, 2, Len(s)) ELSE s

\* err == nil: there is a digit and nothing but digits after the sign (the
\* inputs are short, no value is out of range)
atoiOk(s) ==
    /\ Len(atoiDigits(s)) > 0
    /\ \A i \in 1..Len(atoiDigits(s)) : CharAt(atoiDigits(s), i) \in digitChars

Atoi(s) ==
    IF Len(s) > 0 /\ CharAt(s, 1) = "-"
    THEN 0 - digitsValue(atoiDigits(s), 0)
    ELSE digitsValue(atoiDigits(s), 0)

\* the cap of the default
workersCap == 10

\* faulty variant of positiveWorkers: zero is accepted
positiveWorkersOrZero(n) == n >= 0

\* maxWorkers > 0
positiveWorkers(n) == n > 0

getMaxWorkers(env, cpus) ==
    IF env # "" /\ atoiOk(env) /\ positiveWorkers(Atoi(env)) THEN Atoi(env)
    ELSE IF cpus > workersCap THEN workersCap
    ELSE cpus

\* values of MAX_WORKERS; "" is the unset variable
EnvValues ==
    {"", "abc", "0", "-3", "5", "+7", "12", " 5", "5x", "007", "1.5", "-",
     "64"}

InitMW ==
    /\ OrchestratorIdle
    /\ ValidatorIdle
    /\ SelectorIdle
    /\ ImgIdle
    /\ ExtractorIdle
    /\ ScoreIdle
    /\ ParallelIdle
    /\ mwEnv \in EnvValues
    /\ mwCpus \in 1..MaxCpus
    /\ mwOut = 0
    /\ mwPc = "call"

\* NewLogoCrawlerApp: MaxWorkers: app.getMaxWorkers()
CallGetMaxWorkers ==
    /\ mwPc = "call"
    /\ mwOut' = getMaxWorkers(mwEnv, mwCpus)
    /\ mwPc' = "done"
    /\ UNCHANGED <<mwEnv, mwCpus, ovars, vvars, svars, evars, cvars, pvars, ivars>>

NextMW == CallGetMaxWorkers

SpecMW == InitMW /\ [][NextMW]_vars

(***************************************************************************)
(* Claims about getMaxWorkers.                                             *)
(***************************************************************************)
\* s spells the integer n: a sign or none, zeros or none, then the digits
Spells(s, n) ==
    \E sign \in {"", "+", "-"}, zeros \in {"", "0", "00"} :
        /\ s = sign \o zeros \o ToString(IF n < 0 THEN 0 - n ELSE n)
        /\ sign = "-" => n <= 0
        /\ sign # "-" => n >= 0

ConfiguredWorkers == {n \in 1..100 : Spells(mwEnv, n)}

\* C16: getMaxWorkers returns the configured MAX_WORKERS when it parses as an
\* integer greater than 0 and min(number of CPUs, 10) otherwise; for every
\* value (absent, non-numeric, zero, negative) the count is at least 1.
C16_WorkerCountAtLeastOne ==
    mwPc = "done" =>
        /\ mwOut >= 1
        /\ IF ConfiguredWorkers # {} THEN mwOut \in ConfiguredWorkers
           ELSE mwOut = IF mwCpus < 10 THEN mwCpus ELSE 10

\* C16 witness: MAX_WORKERS is set to zero on a host with more than 10 CPUs,
\* and the default was returned.
C16_Witness ==
    /\ mwPc = "done"
    /\ mwEnv = "0"
    /\ mwCpus > 10
    /\ mwOut = 10

(***************************************************************************)
(* Two workers of FetchPublishersConcurrently, each inside                 *)
(* FetchPublisherLogos for its own organization: every call makes a        *)
(* LogoCrawler of its own (NewLogoCrawler, NewLogoValidator(10)) and       *)
(* ValidateConcurrently makes a context, a results channel and a WaitGroup *)
(* of its own.  The candidate goroutines of a call have no identity: they  *)
(* are kept as one bag per position.  A goroutine is told from another by  *)
(* its URL when the URL serves an image; goroutines whose URL serves no    *)
(* image behave alike and are counted together.                            *)
(***************************************************************************)
Calls == {1, 2}

\* faulty variant of validatorOf: one validator serves every call
validatorShared(o) == 1

\* the validator whose semaphore call o uses: the one its own NewLogoCrawler
\* made
validatorOf(o) == o

\* the first organization has as many candidates as there are permits and
\* one more, none of them an image; the second has one candidate, an image
parCandidates(o) ==
    IF o = 1
    THEN [i \in 1..(SemCap + 1) |-> "https://a.co/path" \o ToString(i)]
    ELSE <<scenarioBig("example.com")>>

NotAnImage == "(no image)"

\* what tells the goroutine of a candidate from the others
candKey(url) ==
    IF url \in ImageURLs \cup ScenarioURLs THEN url ELSE NotAnImage

\* getImageDimensionsWithContext for a goroutine of the bag
keyDims(k, done) ==
    IF k = NotAnImage THEN {<<0, 0>>}
    ELSE getImageDimensionsWithContext(k, done)

\* the goroutines started by the loop over candidates[i..]
RECURSIVE started_goroutines(_, _)
started_goroutines(cands, i) ==
    IF i > Len(cands) THEN EmptyBag
    ELSE SetToBag({candKey(cands[i])}) (+) started_goroutines(cands, i + 1)

\* both calls have started their candidate goroutines and their closer, and
\* wait for results
InitPar ==
    /\ OrchestratorIdle
    /\ ValidatorIdle
    /\ SelectorIdle
    /\ ImgIdle
    /\ ExtractorIdle
    /\ AppIdle
    /\ ScoreIdle
    /\ pcands = [o \in Calls |-> parCandidates(o)]
    /\ pcpc = [o \in Calls |->
                 [wait |-> started_goroutines(parCandidates(o), 1),
                  fetch |-> EmptyBag]]
    /\ psem = [v \in Calls |-> 0]
    /\ pctx = [o \in Calls |-> FALSE]
    /\ pres = [o \in Calls |-> <<>>]
    /\ pwg = [o \in Calls |-> Len(parCandidates(o))]
    /\ pclosed = [o \in Calls |-> FALSE]
    /\ pvalid = [o \in Calls |-> <<>>]
    /\ ppc = [o \in Calls |-> "collect"]

KeysOf(o) == {candKey(pcands[o][c]) : c \in DOMAIN pcands[o]}

One(k) == SetToBag({k})

\* the 30 s deadline of call o's context fires
PDeadline(o) ==
    /\ ppc[o] = "collect"
    /\ ~pctx[o]
    /\ pctx' = [pctx EXCEPT ![o] = TRUE]
    /\ UNCHANGED <<pcands, pcpc, psem, pres, pwg, pclosed, pvalid, ppc,
                   ovars, vvars, svars, evars, avars, cvars, ivars>>

\* validateSingleLogo of call o: case lv.semaphore <- struct{}{}
PAcquire(o, k) ==
    /\ BagIn(k, pcpc[o].wait)
    /\ permitFree(psem[validatorOf(o)])
    /\ psem' = [psem EXCEPT ![validatorOf(o)] = @ + 1]
    /\ pcpc' = [pcpc EXCEPT ![o].wait = @ (-) One(k),
                            ![o].fetch = @ (+) One(k)]
    /\ UNCHANGED <<pcands, pctx, pres, pwg, pclosed, pvalid, ppc,
                   ovars, vvars, svars, evars, avars, cvars, ivars>>

\* validateSingleLogo of call o: case <-ctx.Done(): return
PAbandon(o, k) ==
    /\ BagIn(k, pcpc[o].wait)
    /\ pctx[o]
    /\ pcpc' = [pcpc EXCEPT ![o].wait = @ (-) One(k)]
    /\ pwg' = [pwg EXCEPT ![o] = @ - 1]
    /\ UNCHANGED <<pcands, psem, pctx, pres, pclosed, pvalid, ppc,
                   ovars, vvars, svars, evars, avars, cvars, ivars>>

\* validateSingleLogo of call o: the GET completes, a LogoInfo is sent when
\* both dimensions are positive, the permit is released, wg.Done()
PFetchDone(o, k) ==
    /\ BagIn(k, pcpc[o].fetch)
    /\ \E d \in keyDims(k, pctx[o]) :
         IF validDimensions(d[1], d[2])
         THEN /\ Len(pres[o]) < resultsCap(Len(pcands[o]))
              /\ pres' = [pres EXCEPT ![o] =
                              Append(@, LogoInfo(k, d[1], d[2]))]
         ELSE UNCHANGED pres
    /\ psem' = [psem EXCEPT ![validatorOf(o)] = releasePermit(@)]
    /\ pwg' = [pwg EXCEPT ![o] = @ - 1]
    /\ pcpc' = [pcpc EXCEPT ![o].fetch = @ (-) One(k)]
    /\ UNCHANGED <<pcands, pctx, pclosed, pvalid, ppc,
                   ovars, vvars, svars, evars, avars, cvars, ivars>>

\* closer goroutine of call o: wg.Wait(); close(results)
PCloseResults(o) ==
    /\ ppc[o] = "collect"
    /\ ~pclosed[o]
    /\ allDone(pwg[o])
    /\ pclosed' = [pclosed EXCEPT ![o] = TRUE]
    /\ UNCHANGED <<pcands, pcpc, psem, pctx, pres, pwg, pvalid, ppc,
                   ovars, vvars, svars, evars, avars, cvars, ivars>>

\* call o: for logo := range results { valid = append(valid, logo) }
PCollectLogo(o) ==
    /\ ppc[o] = "collect"
    /\ Len(pres[o]) > 0
    /\ pvalid' = [pvalid EXCEPT ![o] = Append(@, Head(pres[o]))]
    /\ pres' = [pres EXCEPT ![o] = Tail(@)]
    /\ UNCHANGED <<pcands, pcpc, psem, pctx, pwg, pclosed, ppc,
                   ovars, vvars, svars, evars, avars, cvars, ivars>>

\* call o: the range ends, ValidateConcurrently returns valid
PValidateReturn(o) ==
    /\ ppc[o] = "collect"
    /\ Len(pres[o]) = 0
    /\ pclosed[o]
    /\ ppc' = [ppc EXCEPT ![o] = "done"]
    /\ UNCHANGED <<pcands, pcpc, psem, pctx, pres, pwg, pclosed, pvalid,
                   ovars, vvars, svars, evars, avars, cvars, ivars>>

NextPar ==
    \/ \E o \in Calls : PDeadline(o)
    \/ \E o \in Calls : \E k \in KeysOf(o) : PAcquire(o, k)
    \/ \E o \in Calls : \E k \in KeysOf(o) : PAbandon(o, k)
    \/ \E o \in Calls : \E k \in KeysOf(o) : PFetchDone(o, k)
    \/ \E o \in Calls : PCloseResults(o)
    \/ \E o \in Calls : PCollectLogo(o)
    \/ \E o \in Calls : PValidateReturn(o)

SpecPar == InitPar /\ [][NextPar]_vars

(***************************************************************************)
(* Claims about organizations processed in parallel.                       *)
(***************************************************************************)
InFlightOf(o) == BagCardinality(pcpc[o].fetch)

WaitingOf(o) == BagCardinality(pcpc[o].wait)

URLsOf(o) == {pcands[o][c] : c \in DOMAIN pcands[o]}

\* in every state the permits of a call's pool are held by its own candidates
\* only, a waiting candidate can take a permit whenever fewer than 10
\* candidates of its own call hold one, and a call receives only logos of
\* its own candidates
C17_OwnPoolInv ==
    \A o \in Calls :
        /\ psem[o] = InFlightOf(o)
        /\ psem[o] <= SemCap
        /\ \A k \in KeysOf(o) :
             BagIn(k, pcpc[o].wait) /\ InFlightOf(o) < SemCap
                => ENABLED PAcquire(o, k)
        /\ \A k \in DOMAIN pres[o] : pres[o][k].URL \in URLsOf(o)
        /\ \A k \in DOMAIN pvalid[o] : pvalid[o][k].URL \in URLsOf(o)

\* a step abandons a waiting candidate only when the deadline of its own call
\* has fired, and a step of one call changes nothing of the other call
C17_OwnDeadlineStep ==
    \A o \in Calls :
        /\ WaitingOf(o) + InFlightOf(o) > BagCardinality(pcpc'[o].wait)
                                            + BagCardinality(pcpc'[o].fetch)
           /\ psem' = psem
           => pctx[o]
        /\ <<pcpc[o], pctx[o], pres[o], pwg[o], pvalid[o]>>
              # <<pcpc'[o], pctx'[o], pres'[o], pwg'[o], pvalid'[o]>>
           => \A q \in Calls \ {o} :
                <<pcpc[q], psem[q], pctx[q], pres[q], pwg[q], pvalid[q]>>
                  = <<pcpc'[q], psem'[q], pctx'[q], pres'[q], pwg'[q],
                      pvalid'[q]>>

\* C17: organizations processed in parallel share no permit pool and no
\* candidate or logo data: each has its own 10 permits and its own deadline,
\* so an organization that holds all its permits or has reached its deadline
\* neither delays nor cancels a candidate of another organization.
C17_OrganizationsIndependent ==
    /\ []C17_OwnPoolInv
    /\ [][C17_OwnDeadlineStep]_vars

\* C17 witness: the first organization holds all 10 permits of its pool, one
\* of its candidates waits and its deadline has fired, while the candidate
\* of the second organization holds a permit and its deadline has not fired.
C17_Witness ==
    /\ InFlightOf(1) = SemCap
    /\ WaitingOf(1) > 0
    /\ pctx[1]
    /\ ~pctx[2]
    /\ InFlightOf(2) > 0

(***************************************************************************)
(* calculateLogoScore applied to one logo.                                 *)
(***************************************************************************)
ScoreURLs ==
    {"https://logo.clearbit.com/a.co", "https://a.co/favicon.ico",
     "https://a.co/apple-touch-icon.png", "https://a.co/brand.svg",
     "https://a.co/logo.png", "https://a.co/hero.jpg",
     "https://a.co/og-image.jpg", "https://a.co/visa.gif",
     "https://a.co/Promotion.JPG"}

\* widths and heights around the thresholds 32, 600, 800 and the areas
\* 1000, 10000 and 100000
ScoreWidths == {1, 20, 31, 32, 50, 100, 150, 316, 317, 500, 800, 801}

ScoreHeights == {1, 20, 31, 32, 50, 100, 200, 316, 600, 601}

InitScore ==
    /\ OrchestratorIdle
    /\ ValidatorIdle
    /\ SelectorIdle
    /\ ImgIdle
    /\ ExtractorIdle
    /\ AppIdle
    /\ ParallelIdle
    /\ scLogo \in {LogoInfo(u, w, h) :
                     u \in ScoreURLs, w \in ScoreWidths, h \in ScoreHeights}
    /\ scPrefs \in PrefsSet
    /\ scScore = 0
    /\ scPc = "call"

\* SelectBest: score := bls.calculateLogoScore(logo, prefs)
CallCalculateLogoScore ==
    /\ scPc = "call"
    /\ scScore' = calculateLogoScore(scLogo, scPrefs)
    /\ scPc' = "done"
    /\ UNCHANGED <<scLogo, scPrefs, ovars, vvars, svars, evars, avars, pvars, ivars>>

NextScore == CallCalculateLogoScore

SpecScore == InitScore /\ [][NextScore]_vars

(***************************************************************************)
(* Claims about calculateLogoScore.                                        *)
(***************************************************************************)
Bonus(cond, points) == IF cond THEN points ELSE 0

TableSize(w, h, prefs) ==
    IF w >= prefs.MinWidth /\ h >= prefs.MinHeight THEN 10 ELSE -20

TableURL(url) ==
      Bonus(Contains(url, "logo.clearbit.com"), 15)
    + Bonus(Contains(url, "favicon.ico"), 12)
    + Bonus(Contains(url, "apple-touch-icon"), 10)
    + Bonus(Contains(url, ".svg"), 8)
    + Bonus(Contains(url, ".png"), 3)

TablePenalties(url, w, h) ==
      Bonus(w > 800 \/ h > 600 \/ ContainsAny(url, dashboardKeywords), -30)
    + Bonus(ContainsAny(url, socialKeywords), -25)
    + Bonus(ContainsAny(url, partnerKeywords), -40)
    + Bonus(ContainsAny(url, adKeywords), -35)

TableShape(w, h) ==
      Bonus(w = h, 5)
    + Bonus(2 * w >= h /\ w <= 2 * h, 3)
    + Bonus(w < 32 \/ h < 32, -15)

TableArea(area) ==
    CASE area \in 10000..100000 -> 8
      [] area \in 1000..9999 -> 5
      [] area > 100000 -> -10
      [] area < 1000 -> 0

\* C18: calculateLogoScore is the sum of the components of the table: size
\* +10 / -20; URL bonuses +15, +12, +10, +8, +3; penalties -30, -25, -40,
\* -35; +5 square; +3 aspect ratio within [0.5, 2.0]; area bucket +8, +5,
\* -10 or 0; -15 when a side is below 32.
C18_ScoreIsTableSum ==
    scPc = "done" =>
        scScore = TableSize(scLogo.Width, scLogo.Height, scPrefs)
                  + TableURL(ToLower(scLogo.URL))
                  + TablePenalties(ToLower(scLogo.URL), scLogo.Width,
                                   scLogo.Height)
                  + TableShape(scLogo.Width, scLogo.Height)
                  + TableArea(scLogo.Width * scLogo.Height)

\* C18 witness: a 100x100 image (area 10000, square) whose URL carries two
\* penalties was scored against preferences it does not meet.
C18_Witness ==
    /\ scPc = "done"
    /\ scLogo = LogoInfo("https://a.co/hero.jpg", 100, 100)
    /\ scPrefs = Preferences(120, 120)
    /\ scScore = -69

(***************************************************************************)
(* Further claims about FetchPublishersConcurrently and                    *)
(* ValidateConcurrently.                                                   *)
(***************************************************************************)
LiveWorkers == {w \in Workers : wpc[w] # "exit"}

QueueDrained == pubClosed /\ Len(publisherChan) = 0

\* C19 (as claimed): a worker that met a fault keeps pulling tasks: no fault
\* ends the process, all maxWorkers workers stay alive until the queue is
\* drained, and every queued organization has been taken for processing when
\* the call returns.
C19_WorkersSurviveFaults ==
    /\ mainpc # "crashed"
    /\ started /\ ~QueueDrained =>
         Cardinality(LiveWorkers) = workerCount(maxWorkers)
    /\ mainpc = "done" /\ maxWorkers >= 1 =>
         \A i \in Indexes : \E k \in DOMAIN taken : taken[k] = i

\* C20: every candidate that took a permit gives it back exactly once, on
\* success, on a failed fetch or decode and after the deadline, and before it
\* is counted as done: the permits held are those of the candidates that are
\* fetching, never more than 10, never fewer than 0, and none when
\* ValidateConcurrently returns.
C20_PermitsReleasedOnce ==
    /\ semaphore >= 0
    /\ semaphore <= SemCap
    /\ semaphore = Cardinality(InFlight)
    /\ vwg = Cardinality({c \in Candidates : cpc[c] # "done"})
    /\ Returned => semaphore = 0

\* C20 witness: of 11 candidates the first has sent its logo and finished,
\* and the 10 others each hold a permit: one of them holds the permit the
\* first gave back.
C20_Witness ==
    /\ Len(candidates) > SemCap
    /\ vpc = "collect"
    /\ cpc[1] = "done"
    /\ sent[1] # NoLogo
    /\ Cardinality(InFlight) = SemCap
    /\ semaphore = SemCap

(***************************************************************************)
(* Termination of ValidateConcurrently.                                    *)
(***************************************************************************)
Unfinished == {c \in Candidates : cpc[c] # "done"}

Finished(c) == c \in Candidates /\ cpc[c] = "done"

\* the step of candidate c that sends its LogoInfo
SendsLogo(c) == FetchDone(c) /\ sent'[c] # NoLogo

\* the results channel has a free slot for every goroutine that has not
\* finished, so a candidate that has an image to report can always send it,
\* whether or not the collector has received anything
C21_SlotPerCandidate ==
    vpc = "collect" =>
        /\ Len(vresults) + Cardinality(Unfinished) <= Len(candidates)
        /\ \A c \in InFlight :
             (\E d \in getImageDimensionsWithContext(candidates[c], ctxDone) :
                 validDimensions(d[1], d[2]))
                => ENABLED SendsLogo(c)

\* the results channel is closed only when every goroutine has finished
C21_ClosedAfterAll == vclosed => Unfinished = {}

\* C21: ValidateConcurrently always returns: under fair scheduling every
\* candidate goroutine eventually finishes (completing, failing or abandoned
\* at the deadline), no goroutine blocks on sending its result because the
\* results channel holds one slot per candidate, the channel is closed only
\* after all candidates are done, and the collector then returns.
C21_ValidateAlwaysReturns ==
    /\ []C21_SlotPerCandidate
    /\ []C21_ClosedAfterAll
    /\ \A c \in 1..MaxCandidates :
         [](c \in Candidates => <>Finished(c))
    /\ <>Returned

\* C21 witness: the call returned after the deadline fired; one candidate
\* had sent a logo, one had been abandoned while it waited for a permit.
C21_Witness ==
    /\ Returned
    /\ ctxDone
    /\ Len(candidates) >= 2
    /\ Len(valid) = 1
    /\ semaphore = 0

(***************************************************************************)
(* The worker pool and its queue.                                          *)
(***************************************************************************)
\* the workers that are inside FetchPublisherLogos
Processing == {w \in Workers : wpc[w] = "fetch"}

\* C22: at every instant at most maxWorkers organizations are being
\* processed, each task index is taken from the queue by exactly one worker
\* (no index is received twice, and two workers never process the same
\* index), and the tasks are taken in input order.
C22_BoundedPoolFifoQueue ==
    /\ Cardinality(Processing) <= (IF maxWorkers > 0 THEN maxWorkers ELSE 0)
    /\ \A w1, w2 \in Processing :
         w1 # w2 => wtask[w1].index # wtask[w2].index
    /\ \A k \in DOMAIN taken : taken[k] = k - 1
    /\ Len(taken) <= Len(publishers)
    /\ \A w \in Processing :
         /\ wtask[w].index \in Indexes
         /\ wtask[w].publisher = publishers[wtask[w].index + 1]
    /\ mainpc = "done" /\ faulted = {} /\ maxWorkers >= 1 =>
         Len(taken) = Len(publishers)

\* C22 witness: both workers of a pool of two are processing an organization
\* while a third organization waits in the queue.
C22_Witness ==
    /\ maxWorkers = 2
    /\ Cardinality(Processing) = 2
    /\ Len(publisherChan) > 0
    /\ taken = <<0, 1>>

(***************************************************************************)
(* No retries.                                                             *)
(***************************************************************************)
\* the indexes received so far are all different
TakenOnce == \A j, k \in DOMAIN taken : j # k => taken[j] # taken[k]

\* a candidate goroutine only moves forward: from waiting to fetching (once)
\* or to its end, from fetching to its end; the list of candidates never
\* changes, so no candidate is started again
CandidateNeverRestarts ==
    /\ vpc \notin {"idle", "start"} => candidates' = candidates
    /\ \A c \in Candidates :
         /\ c \in DOMAIN cpc'
         /\ cpc[c] = "fetch" => cpc'[c] \in {"fetch", "done"}
         /\ cpc[c] = "done" => cpc'[c] = "done"

\* a task, once received, is never put back on the queue, and a worker starts
\* the pipeline only for a task it has just received
TaskNeverRequeued ==
    /\ \A k \in DOMAIN publisherChan' :
         \A j \in DOMAIN taken : publisherChan'[k].index # taken[j]
    /\ \A k \in DOMAIN taken : k \in DOMAIN taken' /\ taken'[k] = taken[k]
    /\ \A w \in Workers :
         wpc[w] # "fetch" /\ wpc'[w] = "fetch" =>
            /\ Len(taken') = Len(taken) + 1
            /\ wtask'[w].index = taken'[Len(taken')]

\* C23: nothing is retried: within one ValidateConcurrently call each
\* candidate is fetched at most once, and within one
\* FetchPublishersConcurrently call the pipeline runs at most once per input
\* index; a failed or timed-out candidate or task is never put back for
\* another attempt.
C23_NothingRetried ==
    /\ []TakenOnce
    /\ [][CandidateNeverRestarts /\ TaskNeverRequeued]_vars

\* C23 witness (validator): a candidate whose fetch failed has finished
\* without a logo, and the call has returned.
C23_Witness ==
    /\ vpc = "done"
    /\ Len(candidates) = 2
    /\ sent[1] = NoLogo
    /\ sent[2] # NoLogo

(***************************************************************************)
(* LogoExtractor.extractImgTags: the img elements of a page, each with its *)
(* src, alt, class and id attributes.                                      *)
(***************************************************************************)
MaxImgs == 2

imgTag(hasSrc, src, alt, class, id) ==
    [hasSrc |-> hasSrc, src |-> src, alt |-> alt, class |-> class, id |-> id]

\* combined := strings.ToLower(alt + " " + class + " " + id)
combinedOf(img) == ToLower(img.alt \o " " \o img.class \o " " \o img.id)

domainLogoKeywords ==
    {"logo", "brand", "header", "nav", "site-icon", "company", "main-logo",
     "brand-logo", "header-logo", "navigation-logo", "site-logo",
     "corporate-logo", "primary-logo"}

logoPaths ==
    {"/logo", "/brand", "/assets/logo", "/images/logo", "/static/logo",
     "/img/logo", "/media/logo", "/uploads/logo"}

isDomainLogo(combined, src, domain) ==
    \/ ContainsAny(combined, domainLogoKeywords)
    \/ ContainsAny(src, logoPaths)

\* partnerKeywords of isUnrelatedLogo
unrelatedKeywords ==
    {"partner", "sponsor", "advertisement", "ad", "banner", "pci", "dss",
     "iso", "certified", "award", "badge", "credit-card", "visa",
     "mastercard", "amex", "rupay", "bank", "payment", "security", "ssl",
     "trust", "social", "facebook", "twitter", "instagram", "linkedin",
     "youtube", "google", "apple", "microsoft", "amazon", "hero", "cover",
     "background", "splash", "testimonial", "review", "rating", "star"}

thirdPartyDomains ==
    {"cdn.", "assets.", "static.", "media.", "uploads.", "partner",
     "sponsor", "ad", "banner", "social"}

adPaths ==
    {"/ads/", "/advertisements/", "/banners/", "/promotions/", "/partners/",
     "/sponsors/", "/certifications/", "/awards/", "/testimonials/",
     "/reviews/", "/ratings/"}

isUnrelatedLogo(combined, src, domain) ==
    \/ ContainsAny(combined, unrelatedKeywords)
    \/ \E thirdParty \in thirdPartyDomains :
          Contains(src, thirdParty) /\ ~Contains(src, domain)
    \/ ContainsAny(src, adPaths)
    \/ Contains(combined, "share") \/ Contains(combined, "social")
    \/ Contains(combined, "hero") \/ Contains(combined, "banner")

\* base.Parse(href).String() for a page at the root of https://domain: an
\* absolute URL is kept, a scheme-relative one gets the scheme, a path is
\* put behind the host
resolveURL(domain, href) ==
    IF HasPrefix(href, "https://") \/ HasPrefix(href, "http://") THEN href
    ELSE IF HasPrefix(href, "//") THEN "https:" \o href
    ELSE IF HasPrefix(href, "/") THEN "https://" \o domain \o href
    ELSE "https://" \o domain \o "/" \o href

\* faulty variant of appendsImg: the inclusion test comes first and decides
appendsImgInclusionFirst(combined, src, domain) ==
    IF isDomainLogo(combined, src, domain) THEN TRUE
    ELSE IF isUnrelatedLogo(combined, src, domain) THEN FALSE
    ELSE FALSE

\* the callback of Each after src was found: return when isUnrelatedLogo,
\* then append when isDomainLogo
appendsImg(combined, src, domain) ==
    IF isUnrelatedLogo(combined, src, domain) THEN FALSE
    ELSE IF isDomainLogo(combined, src, domain) THEN TRUE
    ELSE FALSE

\* doc.Find("img").Each over imgs[i..], carrying candidates
RECURSIVE extractImgLoop(_, _, _, _)
extractImgLoop(imgs, i, domain, cands) ==
    IF i > Len(imgs) THEN cands
    ELSE IF ~imgs[i].hasSrc
         THEN extractImgLoop(imgs, i + 1, domain, cands)
         ELSE IF appendsImg(combinedOf(imgs[i]), imgs[i].src, domain)
              THEN extractImgLoop(imgs, i + 1, domain,
                       Append(cands, resolveURL(domain, imgs[i].src)))
              ELSE extractImgLoop(imgs, i + 1, domain, cands)

extractImgTags(imgs, domain) == extractImgLoop(imgs, 1, domain, <<>>)

\* img elements a page can hold
ImgTags ==
    {imgTag(TRUE, "/logo.png", "Company logo", "", ""),
     imgTag(TRUE, "/img/partner-logo.png", "Partner logo", "", ""),
     imgTag(TRUE, "/images/logo.svg", "", "header-logo", "top"),
     imgTag(TRUE, "/photo.jpg", "Team", "", ""),
     imgTag(FALSE, "", "logo", "", ""),
     imgTag(TRUE, "https://cdn.other.net/brand/mark.png", "", "", ""),
     imgTag(TRUE, "https://cdn.example.com/brand/mark.png", "", "", ""),
     imgTag(TRUE, "/ads/logo.png", "logo", "", ""),
     imgTag(TRUE, "/static/logo.png", "Share our logo", "", ""),
     imgTag(TRUE, "assets/Mark.PNG", "BRAND", "Nav", "")}

ImgDomains == {"example.com", "other.net"}

InitImg ==
    /\ OrchestratorIdle
    /\ ValidatorIdle
    /\ SelectorIdle
    /\ ExtractorIdle
    /\ AppIdle
    /\ ScoreIdle
    /\ ParallelIdle
    /\ imDomain \in ImgDomains
    /\ imPage \in SeqsUpTo(ImgTags, MaxImgs)
    /\ imOut = <<>>
    /\ imPc = "call"

CallExtractImgTags ==
    /\ imPc = "call"
    /\ imOut' = extractImgTags(imPage, imDomain)
    /\ imPc' = "done"
    /\ UNCHANGED <<imDomain, imPage, ovars, vvars, svars, evars, avars,
                   cvars, pvars>>

NextImg == CallExtractImgTags

SpecImg == InitImg /\ [][NextImg]_vars

(***************************************************************************)
(* Claim about extractImgTags.                                             *)
(***************************************************************************)
Included(img) == isDomainLogo(combinedOf(img), img.src, imDomain)

Excluded(img) == isUnrelatedLogo(combinedOf(img), img.src, imDomain)

\* the positions of the page whose image is to be added
AddedPositions ==
    {k \in DOMAIN imPage :
        imPage[k].hasSrc /\ Included(imPage[k]) /\ ~Excluded(imPage[k])}

\* the k-th smallest element of a set of positions
RECURSIVE Nth(_, _)
Nth(S, k) ==
    LET m == CHOOSE x \in S : \A y \in S : x <= y IN
    IF k = 1 THEN m ELSE Nth(S \ {m}, k - 1)

\* C24: in image-tag extraction exclusion wins over inclusion: the
\* candidates are, in document order, the resolved src of exactly the images
\* that match the inclusion list and no exclusion rule; an image that matches
\* both lists adds nothing.
C24_ExclusionBeforeInclusion ==
    imPc = "done" =>
        /\ Len(imOut) = Cardinality(AddedPositions)
        /\ \A k \in DOMAIN imOut :
             imOut[k] = resolveURL(imDomain, imPage[Nth(AddedPositions, k)].src)
        /\ (\A k \in DOMAIN imPage : Excluded(imPage[k])) => imOut = <<>>

\* C24 witness: of two images that both match the inclusion list, the one
\* that also matches an exclusion rule was dropped and the other was added.
C24_Witness ==
    /\ imPc = "done"
    /\ Len(imPage) = 2
    /\ Included(imPage[1]) /\ Excluded(imPage[1])
    /\ Included(imPage[2]) /\ ~Excluded(imPage[2])
    /\ Len(imOut) = 1

(***************************************************************************)
(* Termination of FetchPublishersConcurrently.                             *)
(***************************************************************************)
\* results sent so far: those collected and those still in the channel
ResultsSent == Len(results) + Len(resultChan)

\* workers that still have a result to send for the task they hold
Senders == {w \in Workers : wpc[w] \in {"send", "recover"}}

\* the queue has room for every task not yet sent, the result channel has
\* room for every result still to come, and neither channel is used for a
\* send after it was closed
C25_ChannelsNeverBlock ==
    /\ Len(publisherChan) + (Len(publishers) - sendIdx) <= Len(publishers)
    /\ ResultsSent + Cardinality(Senders) <= Len(publishers)
    /\ ResultsSent <= Len(taken)
    /\ pubClosed => sendIdx = Len(publishers)
    /\ resClosed => \A w \in Workers : wpc[w] = "exit"

\* a closed channel stays closed: each channel is closed once
C25_ClosedOnce ==
    /\ pubClosed => pubClosed'
    /\ resClosed => resClosed'

\* C25 (as claimed): FetchPublishersConcurrently always returns when every
\* task terminates: the sender never blocks, no worker blocks sending a
\* result, the task queue and the result channel are each closed exactly
\* once, no send happens on a closed channel, the call is not cut short, and
\* under fair scheduling the caller gets its results.
C25_AlwaysReturns ==
    /\ []C25_ChannelsNeverBlock
    /\ [][C25_ClosedOnce]_vars
    /\ [](mainpc # "crashed")
    /\ <>(mainpc = "done")

(***************************************************************************)
(* What FetchPublisherLogos hands to the report.                           *)
(***************************************************************************)
\* C26 (as claimed): in every result returned for an organization, Logos
\* non-empty implies Best present, so that the report template, which reads
\* Best.URL whenever Logos is non-empty, never meets an absent Best.
C26_LogosImplyBest ==
    vpc = "done" => (Len(fpLogos) > 0 => fpBest # NoLogo)

\* no two logos of the list have the same URL (ExtractCandidates returns a
\* duplicate-free list and the validator sends one logo per candidate)
URLsDistinct(logos) ==
    \A i, j \in DOMAIN logos : i # j => logos[i].URL # logos[j].URL

Count(seq, x) == Cardinality({k \in DOMAIN seq : seq[k] = x})

\* C27: the logo list returned by FetchPublisherLogos is a permutation of the
\* validator's output; when Best is present it is one logo of that list and
\* the first element, the other logos keeping their relative order; when Best
\* is absent the list is returned unchanged.
C27_SortedIsPermutationBestFirst ==
    selPc \in {"done", "twice"} /\ URLsDistinct(selLogos) =>
        /\ Len(selSorted) = Len(selLogos)
        /\ \A k \in DOMAIN selLogos :
             Count(selSorted, selLogos[k]) = Count(selLogos, selLogos[k])
        /\ selBest # NoLogo =>
             /\ \E k \in DOMAIN selLogos : selLogos[k] = selBest
             /\ selSorted[1] = selBest
             /\ Tail(selSorted) = SelectSeq(selLogos, LAMBDA l : l # selBest)
        /\ selBest = NoLogo => selSorted = selLogos

\* C27 witness: the best of three logos was the last of the validator's
\* output and has been moved to the front.
C27_Witness ==
    /\ selPc = "done"
    /\ Len(selLogos) = 3
    /\ URLsDistinct(selLogos)
    /\ selBest = selLogos[3]
    /\ selSorted = <<selLogos[3], selLogos[1], selLogos[2]>>

(***************************************************************************)
(* FetchPublishersConcurrently without workers or without organizations.   *)
(***************************************************************************)
NoWorkers == Len(publishers) > 0 /\ maxWorkers <= 0

NoOrganizations == Len(publishers) = 0

\* no goroutine has run the pipeline and nothing has been received or sent
\* as a result
NothingProcessed ==
    /\ Workers = {}
    /\ taken = <<>>
    /\ computed = <<>>
    /\ faulted = {}
    /\ resultChan = <<>>
    /\ results = <<>>

\* the caller is not blocked: it can take its next step, or it waits for the
\* close of the result channel and the closer can close it
CallerNotBlocked ==
    \/ mainpc = "done"
    \/ ENABLED (ReturnNil \/ Start \/ Return)
    \/ mainpc = "collect" /\ ENABLED CloseResultChan

\* the sender is not blocked: it has closed the queue, or it can send or close
SenderNotBlocked ==
    started => pubClosed \/ ENABLED (SendTask \/ ClosePublisherChan)

\* C28: called with a non-empty organization list and maxWorkers <= 0,
\* FetchPublishersConcurrently starts no worker, processes no organization
\* and returns an empty result sequence without blocking (in every state the
\* caller has returned, can step, or waits for a close that can happen, and
\* the sender is never stuck on a full queue); called with an empty list it
\* returns an empty sequence for every maxWorkers.
C28_NoWorkersOrNoInput ==
    /\ NoWorkers \/ NoOrganizations =>
         /\ NothingProcessed
         /\ CallerNotBlocked
         /\ SenderNotBlocked
         /\ mainpc # "crashed"
    /\ NoOrganizations => ~started /\ publisherChan = <<>>

\* C28 witness: with organizations and no worker the call has returned
\* nothing; every task is still in the queue, which the sender has closed.
C28_Witness ==
    /\ mainpc = "done"
    /\ maxWorkers <= 0
    /\ Len(publishers) >= 2
    /\ Len(publisherChan) = Len(publishers)
    /\ pubClosed
    /\ results = <<>>

(***************************************************************************)
(* Best and the order in which the validations complete.                   *)
(***************************************************************************)
\* the validated logos in another completion order
Reordered(p) == [k \in DOMAIN valid |-> valid[p[k]]]

\* what FetchPublisherLogos calls Best for each order in which the validated
\* logos can arrive (none when nothing was validated)
BestOfOrders ==
    {SelectBest(Reordered(p), orchPrefs) : p \in Permutations(DOMAIN valid)}

scoreOf(logo) == calculateLogoScore(logo, orchPrefs)

\* two different validated logos share the highest score
TieAtTop ==
    \E i, j \in DOMAIN valid :
        /\ valid[i] # valid[j]
        /\ scoreOf(valid[i]) = scoreOf(valid[j])
        /\ \A k \in DOMAIN valid : scoreOf(valid[k]) <= scoreOf(valid[i])

\* C29 (as claimed): for a fixed set of validated logos and fixed
\* preferences, Best does not depend on the order in which the validations
\* complete: every interleaving yields the same Best.
C29_BestIndependentOfOrder ==
    vpc = "done" => BestOfOrders \subseteq {fpBest}

\* C29 (amended): every completion order yields a Best of the same score, or
\* no Best in every order; the logo itself is the same in every order when no
\* two validated logos share the highest score.  Among logos that share it,
\* Best is the one whose validation completed first.
C29_BestScoreIndependentOfOrder ==
    vpc = "done" =>
        /\ \A b \in BestOfOrders :
             /\ (b = NoLogo) = (fpBest = NoLogo)
             /\ b # NoLogo => scoreOf(b) = scoreOf(fpBest)
        /\ ~TieAtTop => BestOfOrders \subseteq {fpBest}
        /\ fpBest # NoLogo =>
             \A k \in DOMAIN valid :
                 /\ scoreOf(valid[k]) <= scoreOf(fpBest)
                 /\ scoreOf(valid[k]) = scoreOf(fpBest) =>
                      \E j \in 1..k : valid[j] = fpBest

\* C29 witness: the 150x150 image served at two paths was validated twice,
\* the copy at the second path completed first and is Best.
C29_Witness ==
    /\ vpc = "done"
    /\ Len(valid) = 3
    /\ TieAtTop
    /\ valid[1].URL = candidates[2]
    /\ valid[2].URL = candidates[1]
    /\ fpBest = valid[1]

(***************************************************************************)
(* The URLs of the validator's output.                                     *)
(***************************************************************************)
\* the logos produced so far: those collected and those still in the channel
Produced == valid \o vresults

PositionsOf(url) == {c \in DOMAIN candidates : candidates[c] = url}

EntriesOf(url) == {k \in DOMAIN Produced : Produced[k].URL = url}

CandidateURLs == {candidates[c] : c \in DOMAIN candidates}

\* C30: every URL in the output of ValidateConcurrently is one of the input
\* candidates and each candidate position produces at most one entry (a URL
\* has no more entries than positions); with a duplicate-free candidate list
\* the output holds no two logos of the same URL.
C30_OutputURLsFromCandidates ==
    /\ \A k \in DOMAIN Produced : Produced[k].URL \in CandidateURLs
    /\ \A u \in CandidateURLs :
         Cardinality(EntriesOf(u)) <= Cardinality(PositionsOf(u))
    /\ Len(Produced) <= Len(candidates)
    /\ (\A u \in CandidateURLs : Cardinality(PositionsOf(u)) = 1) =>
         URLsDistinct(Produced)
    /\ Returned => vresults = <<>>

\* C30 witness: both candidates of a duplicate-free list were validated and
\* the call returned two logos of different URLs.
C30_Witness ==
    /\ Returned
    /\ Len(candidates) = 2
    /\ candidates[1] # candidates[2]
    /\ Len(valid) = 2
    /\ valid[1].URL # valid[2].URL

====
